---- MODULE Spec2Model ----
(***************************************************************************)
(* History / undo coordination of Amulet-Core.                             *)
(*                                                                         *)
(* MetaHistoryManager (amulet/api/history/manager/meta.py) coordinates an  *)
(* ordered collection of trackers; BaseLevel.run_operation                 *)
(* (amulet/api/level/base_level/base_level.py) drives an edit operation    *)
(* and rolls the trackers back when it raises.                             *)
(*                                                                         *)
(* ContainerHistoryManager (the base class of MetaHistoryManager) and the  *)
(* trackers (ActiveHistoryManager implementations) are not part of the     *)
(* sources at hand; they are modelled from spec.md sections 3, 4.5, 4.6.   *)
(***************************************************************************)
EXTENDS Integers, Sequences, FiniteSets, TLC

\* The trackers receive at most MaxEdits edits in a behaviour.
MaxEdits == 2

\* The tracker objects that exist (three, as in the atomicity scenario), in
\* the order in which they are handed to register.
TrackerOrder == << "t1", "t2", "t3" >>

Trackers == { TrackerOrder[i] : i \in 1..Len(TrackerOrder) }

\* An object that is not an ActiveHistoryManager.
NotAManager == "not_a_manager"

\* Exceptions an operation may raise (subclasses of Exception).
Exceptions == {"ChunkLoadError", "ValueError"}

\* How an operation handed to run_operation ends: it returns a value or
\* raises when called, or returns a generator that is driven to its return
\* or raises on the way.
OperationKinds ==
    {"returns", "raises", "generator_returns", "generator_raises"}

\* What an operation of that kind raises.
RaisedBy(kind) ==
    IF kind \in {"raises", "generator_raises"} THEN Exceptions ELSE {"none"}

VARIABLES
    world_managers,      \* MetaHistoryManager._world_managers
    non_world_managers,  \* MetaHistoryManager._non_world_managers
    tr,                  \* the state of every tracker
    snapshots,           \* the container's checkpoint stack (top is last)
    redo_snapshots,      \* the container's redo stack (top is last)
    saved_index,         \* depth of the checkpoint stack at the last save
    last,                \* the last call made on the level / history manager
    calls,               \* the calls the last call made, in order
    before,              \* what the call before the last call left, kept
                         \* for create_undo_point twice and for undo, redo
    scen,                \* observer of the atomicity scenario
    disk,                \* the region files of the world directory
    _loaded_regions,     \* _Anvil2RegionManager._loaded_regions
    header_reads,        \* how often each region's header was read
    rlast,               \* the last call made on the region manager
    codec,               \* the last call made on the long-array codec
    parray,              \* the partial 3-D arrays and their section dicts
    save,                \* a level, its wrapper and a save_iter under way
    blockworld,          \* the chunks of a level that blocks are set in
    loader,              \* the interface loader and its plugin directories
    fmt,                 \* a Format, its chunks and the world palette
    resolve,             \* a data version and the Anvil interfaces it gets
    anvil                \* a world directory and the AnvilFormats open on it

historyVars ==
    << world_managers, non_world_managers, tr, snapshots, redo_snapshots,
       saved_index, last, calls, before, scen >>

regionVars == << disk, _loaded_regions, header_reads, rlast >>

codecVars == << codec >>

\* The variables of the other parts of the library, each a record.
restVars == << parray, save, blockworld, loader >>

\* The variables of the format layer, each a record.
moreVars == << fmt, resolve, anvil >>

vars == << historyVars, regionVars, codecVars, restVars, moreVars >>

Last(s) == s[Len(s)]
Front(s) == SubSeq(s, 1, Len(s) - 1)
Range(s) == { s[i] : i \in 1..Len(s) }

(***************************************************************************)
(* ActiveTracker (spec.md 3 and 4.5): changed, checkpoint, undo, redo,     *)
(* mark_saved, restore_last_undo_point.  cur is the tracker's current      *)
(* state, base the state held by its last checkpoint.                      *)
(***************************************************************************)
InitTracker ==
    [ cur |-> 0, base |-> 0, undo |-> <<>>, redo |-> <<>>,
      dirty |-> FALSE, edits |-> 0 ]

\* An edit: the tracker gets a state it never had, and is dirty.
Tr_mutate(s) ==
    [ s EXCEPT !.cur = s.edits + 1, !.edits = s.edits + 1, !.dirty = TRUE ]

Tr_changed(s) == s.dirty

\* checkpoint(): true iff this call captured a real change.
Tr_create_undo_point_ret(s) == s.dirty

Tr_create_undo_point(s) ==
    IF s.dirty
    THEN [ s EXCEPT !.undo = Append(@, s.base), !.redo = <<>>,
                    !.base = s.cur, !.dirty = FALSE ]
    ELSE s

Tr_undo(s) ==
    IF Len(s.undo) > 0
    THEN [ s EXCEPT !.redo = Append(@, s.cur), !.cur = Last(s.undo),
                    !.base = Last(s.undo), !.undo = Front(@),
                    !.dirty = FALSE ]
    ELSE s

Tr_redo(s) ==
    IF Len(s.redo) > 0
    THEN [ s EXCEPT !.undo = Append(@, s.cur), !.cur = Last(s.redo),
                    !.base = Last(s.redo), !.redo = Front(@),
                    !.dirty = FALSE ]
    ELSE s

Tr_mark_saved(s) == [ s EXCEPT !.dirty = FALSE ]

Tr_restore_last_undo_point(s) == [ s EXCEPT !.cur = s.base, !.dirty = FALSE ]

\* manager.<op>() on a tracker in state s: its new state and what it returns.
TrCall(op, s) ==
    CASE op = "create_undo_point" -> Tr_create_undo_point(s)
      [] op = "undo" -> Tr_undo(s)
      [] op = "redo" -> Tr_redo(s)
      [] op = "mark_saved" -> Tr_mark_saved(s)
      [] op = "restore_last_undo_point" -> Tr_restore_last_undo_point(s)

TrRet(op, s) ==
    IF op = "create_undo_point"
    THEN (IF Tr_create_undo_point_ret(s) THEN "True" ELSE "False")
    ELSE "None"

(***************************************************************************)
(* A state of the history layer while a call runs: the trackers, the       *)
(* container's stacks, and the log of the calls made so far.               *)
(***************************************************************************)
Here ==
    [ tr |-> tr, snaps |-> snapshots, redo |-> redo_snapshots,
      saved |-> saved_index, log |-> <<>>, ret |-> "None" ]

Call(on, op, ret) == [ on |-> on, op |-> op, ret |-> ret ]

\* for manager in targets: manager.<op>()
RECURSIVE ForEach(_, _, _)
ForEach(S, targets, op) ==
    IF targets = <<>>
    THEN S
    ELSE LET m == Head(targets)
         IN ForEach(
                [ S EXCEPT !.tr = [ S.tr EXCEPT ![m] = TrCall(op, @) ],
                           !.log = Append(@, Call(m, op, TrRet(op, S.tr[m]))) ],
                Tail(targets), op)

\* The entries of log from position n + 1 on.
LogFrom(log, n) == SubSeq(log, n + 1, Len(log))

(***************************************************************************)
(* MetaHistoryManager (meta.py).  Every operator takes the state S the     *)
(* call starts in and gives the state it ends in.                          *)
(***************************************************************************)
\* tuple(seq) * flag: the tuple once when the flag is True, () when False.
\* (a mutant: the flag is ignored)
BoolTimes_ignored(seq, flag) == seq

BoolTimes(seq, flag) == IF flag THEN seq ELSE <<>>

\* (a mutant: the non-world trackers come first)
_managers_non_world_first(world, non_world) ==
    BoolTimes(non_world_managers, non_world) \o BoolTimes(world_managers, world)

_managers(world, non_world) ==
    BoolTimes(world_managers, world) \o BoolTimes(non_world_managers, non_world)

\* (a mutant: the flag picks the other list)
register_other_list(manager, is_world_manager) ==
    IF manager \notin Trackers
    THEN [ world |-> world_managers, non_world |-> non_world_managers,
           exc |-> "AssertionError" ]
    ELSE IF is_world_manager
         THEN [ world |-> world_managers,
                non_world |-> Append(non_world_managers, manager),
                exc |-> "none" ]
         ELSE [ world |-> Append(world_managers, manager),
                non_world |-> non_world_managers, exc |-> "none" ]

\* register(manager, is_world_manager): the two lists afterwards, and the
\* exception raised (the assert) or "none".
register(manager, is_world_manager) ==
    IF manager \notin Trackers
    THEN [ world |-> world_managers, non_world |-> non_world_managers,
           exc |-> "AssertionError" ]
    ELSE IF is_world_manager
         THEN [ world |-> Append(world_managers, manager),
                non_world |-> non_world_managers, exc |-> "none" ]
         ELSE [ world |-> world_managers,
                non_world |-> Append(non_world_managers, manager),
                exc |-> "none" ]

\* (a mutant: every registered tracker is undone)
_undo_every_manager(S, snapshot) == ForEach(S, _managers(TRUE, TRUE), "undo")

_undo(S, snapshot) == ForEach(S, snapshot, "undo")

\* (a mutant: the snapshot is replayed backwards)
_redo_reversed(S, snapshot) ==
    ForEach(S, [ i \in 1..Len(snapshot) |-> snapshot[Len(snapshot) + 1 - i] ],
            "redo")

_redo(S, snapshot) == ForEach(S, snapshot, "redo")

_mark_saved(S) == ForEach(S, _managers(TRUE, TRUE), "mark_saved")

\* The method of the history manager that is entered, as a log entry.
Enter(S, op) ==
    [ S EXCEPT !.log = Append(@, Call("history_manager", op, "None")) ]

(***************************************************************************)
(* ContainerHistoryManager (spec.md 3 "Snapshot" and 4.6): a checkpoint    *)
(* stack and a redo stack of snapshots, and the depth that was saved.      *)
(***************************************************************************)
Container_changed(S) == Len(S.snaps) # S.saved

\* Pushes the snapshot if non-empty; returns whether it was pushed.  A new
\* snapshot ends the redo stack, and a saved depth that was undone past is
\* out of reach from then on.
_register_snapshot(S, snapshot) ==
    IF snapshot # <<>>
    THEN [ S EXCEPT !.snaps = Append(@, snapshot), !.redo = <<>>,
                    !.saved = IF S.saved > Len(S.snaps) THEN -1 ELSE @,
                    !.ret = "True" ]
    ELSE [ S EXCEPT !.ret = "False" ]

undo(S) ==
    LET S0 == Enter(S, "undo")
    IN IF Len(S0.snaps) > 0
       THEN LET snapshot == Last(S0.snaps)
            IN [ _undo(S0, snapshot) EXCEPT
                     !.snaps = Front(S0.snaps),
                     !.redo = Append(S0.redo, snapshot) ]
       ELSE S0

redo(S) ==
    LET S0 == Enter(S, "redo")
    IN IF Len(S0.redo) > 0
       THEN LET snapshot == Last(S0.redo)
            IN [ _redo(S0, snapshot) EXCEPT
                     !.redo = Front(S0.redo),
                     !.snaps = Append(S0.snaps, snapshot) ]
       ELSE S0

mark_saved(S) ==
    LET S0 == Enter(S, "mark_saved")
    IN [ _mark_saved(S0) EXCEPT !.saved = Len(S0.snaps) ]

(***************************************************************************)
(* MetaHistoryManager, continued.                                          *)
(***************************************************************************)
\* The trackers whose changed property MetaHistoryManager.changed reads.
changed_managers == _managers(TRUE, FALSE)

changed(S) ==
    \/ Container_changed(S)
    \/ \E i \in 1..Len(changed_managers) : Tr_changed(S.tr[changed_managers[i]])

\* The trackers of the entries of a log whose call returned True.
ReturnedTrue(log) ==
    LET sel == SelectSeq(log, LAMBDA c : c.ret = "True")
    IN [ i \in 1..Len(sel) |-> sel[i].on ]

\* (a mutant: every tracker asked goes into the snapshot)
create_undo_point_all_asked(S, non_world_only) ==
    LET S0 == Enter(S, "create_undo_point")
        managers == _managers(~non_world_only, TRUE)
        S1 == ForEach(S0, managers, "create_undo_point")
    IN _register_snapshot(S1, managers)

create_undo_point(S, non_world_only) ==
    LET S0 == Enter(S, "create_undo_point")
        managers == _managers(~non_world_only, TRUE)
        S1 == ForEach(S0, managers, "create_undo_point")
        snapshot == ReturnedTrue(LogFrom(S1.log, Len(S0.log)))
    IN _register_snapshot(S1, snapshot)

\* (a mutant: only the world trackers are restored)
restore_last_undo_point_world_only(S) ==
    ForEach(Enter(S, "restore_last_undo_point"), _managers(TRUE, FALSE),
            "restore_last_undo_point")

restore_last_undo_point(S) ==
    ForEach(Enter(S, "restore_last_undo_point"), _managers(TRUE, TRUE),
            "restore_last_undo_point")

(***************************************************************************)
(* BaseLevel (base_level.py): run_operation and the history calls.         *)
(***************************************************************************)
\* (a mutant: the exception is handled and not raised again)
run_operation_swallowed(S, raised, create_undo) ==
    LET S1 == IF raised # "none" THEN restore_last_undo_point(S) ELSE S
    IN IF create_undo
       THEN [ state |-> create_undo_point(S1, FALSE), exc |-> "none" ]
       ELSE [ state |-> S1, exc |-> "none" ]

\* (a mutant: the undo point is created whatever create_undo says)
run_operation_undo_always(S, raised, create_undo) ==
    IF raised # "none"
    THEN [ state |-> restore_last_undo_point(S), exc |-> raised ]
    ELSE [ state |-> create_undo_point(S, FALSE), exc |-> "none" ]

\* BaseLevel.run_operation once the operation has run: raised is the
\* exception the operation raised, when called or while generator_unpacker
\* drove its generator, or "none".  exc is the exception that leaves
\* run_operation.
run_operation(S, raised, create_undo) ==
    IF raised # "none"
    THEN [ state |-> restore_last_undo_point(S), exc |-> raised ]
    ELSE IF create_undo
         THEN [ state |-> create_undo_point(S, FALSE), exc |-> "none" ]
         ELSE [ state |-> S, exc |-> "none" ]

\* The edits an operation makes to the trackers before it ends.
RECURSIVE Edited(_, _)
Edited(f, muts) ==
    IF muts = {}
    THEN f
    ELSE LET t == CHOOSE x \in muts : TRUE
         IN Edited([ f EXCEPT ![t] = Tr_mutate(@) ], muts \ {t})

Registered == Range(world_managers) \cup Range(non_world_managers)

RECURSIVE EditCount(_)
EditCount(ts) ==
    IF ts = {}
    THEN 0
    ELSE LET t == CHOOSE x \in ts : TRUE
         IN tr[t].edits + EditCount(ts \ {t})

\* The sets of trackers an operation can still edit.
CanEdit == { muts \in SUBSET Registered :
                EditCount(Trackers) + Cardinality(muts) <= MaxEdits }

\* The tracker handed to register next.
NextTracker ==
    { TrackerOrder[i] : i \in { j \in 1..Len(TrackerOrder) :
                                  j = Cardinality(Registered) + 1 } }

(***************************************************************************)
(* Observer of the scenario "create_undo_point(), edit two trackers,       *)
(* [create_undo_point(),] undo()": at holds the state each tracker's last  *)
(* checkpoint holds at the first undo point, muts the trackers edited      *)
(* since.                                                                  *)
(***************************************************************************)
ScenIdle ==
    [ phase |-> "idle", muts |-> <<>>, at |-> [ t \in Trackers |-> 0 ] ]

ScenNext(op, arg, S) ==
    CASE op = "create_undo_point" /\ arg = "all" ->
            IF scen.phase = "point" /\ Len(scen.muts) = 2
            THEN [ scen EXCEPT !.phase = "repoint" ]
            ELSE [ phase |-> "point", muts |-> <<>>,
                   at |-> [ t \in Trackers |-> S.tr[t].base ] ]
      [] op = "mutate" ->
            IF scen.phase = "point" /\ Len(scen.muts) < 2
                    /\ arg \notin Range(scen.muts)
            THEN [ scen EXCEPT !.muts = Append(@, arg) ]
            ELSE ScenIdle
      [] op = "undo" ->
            IF scen.phase = "point" /\ Len(scen.muts) = 2
            THEN [ scen EXCEPT !.phase = "undone" ]
            ELSE IF scen.phase = "repoint"
                 THEN [ scen EXCEPT !.phase = "repoint_undone" ]
                 ELSE ScenIdle
      [] OTHER -> ScenIdle

(***************************************************************************)
(* Observer of two calls in a row: create_undo_point after                 *)
(* create_undo_point (op, arg, ret and the checkpoint stack the first call *)
(* left), and redo after undo (the stacks before the undo and the trackers *)
(* undo() was called on).                                                  *)
(***************************************************************************)
BeforeNone ==
    [ op |-> "", arg |-> "", ret |-> "", snaps |-> <<>>, redo |-> <<>>,
      targets |-> <<>> ]

\* The trackers a log shows calls on, in order.
Targets(log) ==
    LET sel == SelectSeq(log, LAMBDA c : c.on # "history_manager")
    IN [ i \in 1..Len(sel) |-> sel[i].on ]

BeforeNext(op) ==
    CASE op = "create_undo_point" /\ last.op = "create_undo_point" ->
            [ BeforeNone EXCEPT !.op = last.op, !.arg = last.arg,
                                !.ret = last.ret, !.snaps = snapshots ]
      [] op = "undo" ->
            [ BeforeNone EXCEPT !.snaps = snapshots, !.redo = redo_snapshots ]
      [] op = "redo" /\ last.op = "undo" ->
            [ before EXCEPT !.op = "undo", !.targets = Targets(calls) ]
      [] OTHER -> BeforeNone

\* The call op(arg) ended in state S; what it left behind.
Commit(op, arg, kind, S, exc, raised) ==
    /\ tr' = S.tr
    /\ snapshots' = S.snaps
    /\ redo_snapshots' = S.redo
    /\ saved_index' = S.saved
    /\ calls' = S.log
    /\ last' = [ op |-> op, arg |-> arg, kind |-> kind,
                 ret |-> IF exc # "none" THEN "raised" ELSE S.ret,
                 exc |-> exc, raised |-> raised ]
    /\ before' = BeforeNext(op)
    /\ scen' = ScenNext(op, arg, S)
    /\ UNCHANGED << regionVars, codecVars, restVars, moreVars >>

\* Before the first call on the region manager.  ret is "True" or "False"
\* (load_region), "data" (load_chunk) or "raised"; exc names what was
\* raised and why the place of the raise; idx and word are the offset-table
\* index load_chunk looked up and the word it found (-1: no lookup); got is
\* the number of payload bytes handed to the decoder (-1: none).
RlastNone ==
    [ op |-> "init", key |-> << 0, 0 >>, cx |-> 0, cz |-> 0, idx |-> -1,
      word |-> -1, ret |-> "None", exc |-> "none", why |-> "", got |-> -1 ]

\* Before the first call on the codec.  A long is kept as its 64 bits, most
\* significant first.
CodecIdle ==
    [ op |-> "init", values |-> << >>, palette_size |-> 0, bits |-> 0,
      words |-> << >>, size |-> 0, encoded |-> FALSE, ok |-> TRUE,
      out |-> << >>, again |-> << >> ]

\* No world directory and no codec call: the history layer on its own.
RegionNone ==
    /\ disk = << >>
    /\ _loaded_regions = << >>
    /\ header_reads = << >>
    /\ rlast = RlastNone

CodecNone == codec = CodecIdle

\* The other parts of the library before anything is made or called.
ArrayNone == parray = [ op |-> "init" ]
SaveNone == save = [ op |-> "init" ]
BlockNone == blockworld = [ op |-> "init" ]
LoaderNone == loader = [ op |-> "init" ]

FmtNone == fmt = [ op |-> "init" ]

ResolveNone == resolve = [ op |-> "init" ]

AnvilNone == anvil = [ op |-> "init" ]

MoreNone == FmtNone /\ ResolveNone /\ AnvilNone

RestNone == ArrayNone /\ SaveNone /\ BlockNone /\ LoaderNone /\ MoreNone

HistoryInit ==
    /\ world_managers = <<>>
    /\ non_world_managers = <<>>
    /\ tr = [ t \in Trackers |-> InitTracker ]
    /\ snapshots = <<>>
    /\ redo_snapshots = <<>>
    /\ saved_index = 0
    /\ calls = <<>>
    /\ last = [ op |-> "init", arg |-> "", kind |-> "", ret |-> "None",
                exc |-> "none", raised |-> "none" ]
    /\ before = BeforeNone
    /\ scen = ScenIdle

Init == HistoryInit /\ RegionNone /\ CodecNone /\ RestNone

\* history_manager.register(manager, is_world_manager); a tracker is
\* registered once (spec.md 4.6, base_level.py line 74).
Call_register(manager, is_world_manager) ==
    LET r == register(manager, is_world_manager)
    IN /\ world_managers' = r.world
       /\ non_world_managers' = r.non_world
       /\ Commit("register", manager,
                 IF is_world_manager THEN "world" ELSE "non_world",
                 Here, r.exc, "none")

\* The owner of a registered tracker edits it.
Mutate(t) ==
    /\ {t} \in CanEdit
    /\ Commit("mutate", t, "", [ Here EXCEPT !.tr = Edited(tr, {t}) ],
              "none", "none")
    /\ UNCHANGED << world_managers, non_world_managers >>

Call_create_undo_point(non_world_only) ==
    /\ Commit("create_undo_point",
              IF non_world_only THEN "non_world_only" ELSE "all", "",
              create_undo_point(Here, non_world_only), "none", "none")
    /\ UNCHANGED << world_managers, non_world_managers >>

Call_undo ==
    /\ Commit("undo", "", "", undo(Here), "none", "none")
    /\ UNCHANGED << world_managers, non_world_managers >>

Call_redo ==
    /\ Commit("redo", "", "", redo(Here), "none", "none")
    /\ UNCHANGED << world_managers, non_world_managers >>

Call_mark_saved ==
    /\ Commit("mark_saved", "", "", mark_saved(Here), "none", "none")
    /\ UNCHANGED << world_managers, non_world_managers >>

Call_restore_last_undo_point ==
    /\ Commit("restore_last_undo_point", "", "",
              restore_last_undo_point(Here), "none", "none")
    /\ UNCHANGED << world_managers, non_world_managers >>

\* level.run_operation(operation, dimension, create_undo=...): the operation
\* edits the trackers in muts and ends as kind says.
Call_run_operation(kind, muts, raised, create_undo) ==
    LET r == run_operation([ Here EXCEPT !.tr = Edited(tr, muts) ], raised,
                           create_undo)
    IN /\ Commit("run_operation",
                 IF create_undo THEN "create_undo" ELSE "no_undo", kind,
                 r.state, r.exc, raised)
       /\ UNCHANGED << world_managers, non_world_managers >>

\* The history manager, called directly.
Next ==
    \/ \E m \in NextTracker \cup {NotAManager}, w \in BOOLEAN :
            Call_register(m, w)
    \/ \E t \in Trackers : Mutate(t)
    \/ \E b \in BOOLEAN : Call_create_undo_point(b)
    \/ Call_undo
    \/ Call_redo
    \/ Call_mark_saved
    \/ Call_restore_last_undo_point

Spec == Init /\ [][Next]_vars

\* The level: run_operation, and the history calls BaseLevel passes on
\* (create_undo_point(), undo(), redo(), restore_last_undo_point()).
NextLevel ==
    \/ \E m \in NextTracker \cup {NotAManager}, w \in BOOLEAN :
            Call_register(m, w)
    \/ \E t \in Trackers : Mutate(t)
    \/ Call_create_undo_point(FALSE)
    \/ Call_undo
    \/ Call_redo
    \/ Call_restore_last_undo_point
    \/ \E kind \in OperationKinds, muts \in CanEdit, cu \in BOOLEAN :
            \E exc \in RaisedBy(kind) : Call_run_operation(kind, muts, exc, cu)

SpecLevel == Init /\ [][NextLevel]_vars

(***************************************************************************)
(* Properties.                                                             *)
(***************************************************************************)
\* The calls of a log made on the history manager itself.
ManagerCalls(log) ==
    LET sel == SelectSeq(log, LAMBDA c : c.on = "history_manager")
    IN [ i \in 1..Len(sel) |-> sel[i].op ]

\* The calls of a log made on trackers.
TrackerCalls(log) == SelectSeq(log, LAMBDA c : c.on # "history_manager")

AllRegistered == world_managers \o non_world_managers

\* C1: when the operation given to run_operation raises (when called or while
\* its generator is driven), restore_last_undo_point() is called on the
\* history manager exactly once, no undo point is created (no
\* create_undo_point call, the stacks stay as they were), and the exception
\* that leaves run_operation is the one the operation raised.
C1_RunOperationRaises ==
    [][ (last'.op = "run_operation" /\ last'.raised # "none") =>
            /\ ManagerCalls(calls') = << "restore_last_undo_point" >>
            /\ \A i \in 1..Len(calls') : calls'[i].op = "restore_last_undo_point"
            /\ snapshots' = snapshots
            /\ redo_snapshots' = redo_snapshots
            /\ last'.ret = "raised"
            /\ last'.exc = last'.raised ]_vars

\* C1 witness: an operation whose generator raised after editing a
\* registered tracker, which run_operation then restored.
C1_Witness ==
    /\ last.op = "run_operation"
    /\ last.kind = "generator_raises"
    /\ last.exc = "ChunkLoadError"
    /\ \E i \in 1..Len(calls) :
          /\ calls[i].on \in Trackers
          /\ tr[calls[i].on].edits > 0
          /\ tr[calls[i].on].cur = tr[calls[i].on].base

\* C2: create_undo_point asks the selected trackers in registration order,
\* world trackers first and then non-world trackers, and the snapshot it
\* registers holds exactly those whose checkpoint returned true, in that
\* order.
C2_CheckpointOrder ==
    last.op = "create_undo_point" =>
        LET selected == (IF last.arg = "all" THEN world_managers ELSE <<>>)
                            \o non_world_managers
            captured == ReturnedTrue(TrackerCalls(calls))
        IN /\ Targets(calls) = selected
           /\ \A i \in 1..Len(calls) : calls[i].op = "create_undo_point"
           /\ captured # <<>> =>
                 (last.ret = "True" /\ snapshots # <<>>
                    /\ Last(snapshots) = captured)
           /\ captured = <<>> => last.ret = "False"

\* C2 witness: a checkpoint over a world and a non-world tracker that both
\* had changes, while a third tracker had none.
C2_Witness ==
    /\ last.op = "create_undo_point"
    /\ last.arg = "all"
    /\ Len(Targets(calls)) = 3
    /\ Len(world_managers) >= 1
    /\ Len(non_world_managers) >= 1
    /\ snapshots # <<>>
    /\ Len(Last(snapshots)) = 2
    /\ Last(snapshots)[1] \in Range(world_managers)
    /\ Last(snapshots)[2] \in Range(non_world_managers)

\* C3: create_undo_point pushes a snapshot only when it is non-empty and
\* returns whether it pushed one; called again with no edit in between (on
\* trackers the first call covered) it returns false and the checkpoint
\* stack does not grow.
C3_IdempotentCheckpoint ==
    [][ last'.op = "create_undo_point" =>
            /\ last'.ret \in {"True", "False"}
            /\ last'.ret = "True" <=> ReturnedTrue(TrackerCalls(calls')) # <<>>
            /\ last'.ret = "True" =>
                  /\ Len(snapshots') = Len(snapshots) + 1
                  /\ Front(snapshots') = snapshots
                  /\ Last(snapshots') # <<>>
            /\ last'.ret = "False" => snapshots' = snapshots
            /\ ( /\ last.op = "create_undo_point"
                 /\ ~(last.arg = "non_world_only" /\ last'.arg = "all") ) =>
                  (last'.ret = "False" /\ snapshots' = snapshots) ]_vars

\* C3 witness: create_undo_point() returned true and, called again at once,
\* returned false.
C3_Witness ==
    /\ last.op = "create_undo_point"
    /\ last.arg = "all"
    /\ last.ret = "False"
    /\ before.op = "create_undo_point"
    /\ before.arg = "all"
    /\ before.ret = "True"
    /\ snapshots = before.snaps

\* C4: undo() / redo() call undo() / redo() once on every tracker of the top
\* snapshot of the checkpoint / redo stack, in the snapshot's order, and on
\* no other tracker.
C4_ReplaySnapshot ==
    [][ /\ last'.op = "undo" =>
              /\ Targets(calls') =
                    (IF snapshots # <<>> THEN Last(snapshots) ELSE <<>>)
              /\ \A i \in 1..Len(calls') : calls'[i].op = "undo"
        /\ last'.op = "redo" =>
              /\ Targets(calls') =
                    (IF redo_snapshots # <<>> THEN Last(redo_snapshots)
                                              ELSE <<>>)
              /\ \A i \in 1..Len(calls') : calls'[i].op = "redo" ]_vars

\* C4 witness: an undo() of a snapshot of two trackers while a third tracker
\* is registered.
C4_Witness ==
    /\ last.op = "undo"
    /\ Len(Targets(calls)) = 2
    /\ Cardinality(Registered) = 3

\* The two edited trackers are back at the state their checkpoint held at
\* the undo point, and undo() was called on no other tracker.
ScenarioReverted ==
    /\ \A t \in Range(scen.muts) : tr[t].cur = scen.at[t] /\ ~tr[t].dirty
    /\ Range(Targets(calls)) = Range(scen.muts)

\* C5 as stated: after create_undo_point(), edits of two of three registered
\* trackers, and undo(), exactly the two edited trackers are reverted and
\* the third is untouched.
C5_AtomicityAsStated ==
    (scen.phase = "undone" /\ Cardinality(Registered) = 3) => ScenarioReverted

\* C5 as amended: after create_undo_point(), edits of two of three registered
\* trackers, create_undo_point() again, and undo(), exactly the two edited
\* trackers are reverted and the third is untouched.
C5_AtomicityAmended ==
    (scen.phase = "repoint_undone" /\ Cardinality(Registered) = 3) =>
        ScenarioReverted

\* C5 witness: the amended scenario has run over three registered trackers.
C5_Witness ==
    /\ scen.phase = "repoint_undone"
    /\ Cardinality(Registered) = 3
    /\ Len(scen.muts) = 2
    /\ \A t \in Range(scen.muts) : tr[t].edits > 0 /\ tr[t].redo # <<>>

\* C6: undo() takes the top snapshot off the checkpoint stack and puts it on
\* the redo stack; a redo() right after an undo() that took a snapshot calls
\* redo() on exactly the trackers undo() was called on, and leaves both
\* stacks as they were before the undo().
C6_UndoRedoRoundTrip ==
    [][ /\ (last'.op = "undo" /\ snapshots # <<>>) =>
              /\ snapshots' = Front(snapshots)
              /\ redo_snapshots' = Append(redo_snapshots, Last(snapshots))
        /\ (last'.op = "redo" /\ last.op = "undo" /\ before.snaps # <<>>) =>
              /\ Targets(calls') = Targets(calls)
              /\ \A i \in 1..Len(calls') : calls'[i].op = "redo"
              /\ snapshots' = before.snaps
              /\ redo_snapshots' = before.redo ]_vars

\* C6 witness: undo() of a snapshot of two trackers, then redo() at once.
C6_Witness ==
    /\ last.op = "redo"
    /\ before.op = "undo"
    /\ Len(before.targets) = 2
    /\ Targets(calls) = before.targets
    /\ snapshots = before.snaps

\* C7 as stated: changed is true exactly when the container's history
\* reports changed or a world tracker reports changed, and non-world trackers
\* do not affect it: while no world tracker has been edited, changed is
\* false, also after a non-world change has been checkpointed.
C7_ChangedIgnoresNonWorld ==
    /\ changed(Here) <=>
          ( \/ Container_changed(Here)
            \/ \E t \in Range(world_managers) : Tr_changed(tr[t]) )
    /\ (\A t \in Range(world_managers) : tr[t].edits = 0) => ~changed(Here)

\* C8: create_undo_point(non_world_only=True) asks no world tracker, puts no
\* world tracker into the snapshot, and leaves every world tracker as it
\* was, pending change included.
C8_NonWorldOnly ==
    [][ (last'.op = "create_undo_point" /\ last'.arg = "non_world_only") =>
            /\ Targets(calls') = non_world_managers
            /\ Range(Targets(calls')) \cap Range(world_managers) = {}
            /\ last'.ret = "True" =>
                  Range(Last(snapshots')) \cap Range(world_managers) = {}
            /\ \A t \in Range(world_managers) : tr'[t] = tr[t] ]_vars

\* C8 witness: a non-world-only checkpoint that captured a change while a
\* world tracker had a pending change, which is still pending.
C8_Witness ==
    /\ last.op = "create_undo_point"
    /\ last.arg = "non_world_only"
    /\ last.ret = "True"
    /\ \E t \in Range(world_managers) : tr[t].dirty

\* C9: restore_last_undo_point() calls restore_last_undo_point() once on
\* every registered tracker, world and non-world, and leaves the checkpoint
\* stack and the redo stack as they were.
C9_RestoreAll ==
    [][ last'.op = "restore_last_undo_point" =>
            /\ Targets(calls') = AllRegistered
            /\ \A t \in Registered :
                  Cardinality({ i \in 1..Len(calls') : calls'[i].on = t }) = 1
            /\ \A i \in 1..Len(calls') :
                  calls'[i].op = "restore_last_undo_point"
            /\ snapshots' = snapshots
            /\ redo_snapshots' = redo_snapshots ]_vars

\* C9 witness: a restore over world and non-world trackers, one of them with
\* a pending edit, while both stacks hold a snapshot.
C9_Witness ==
    /\ last.op = "restore_last_undo_point"
    /\ Len(world_managers) >= 1
    /\ Len(non_world_managers) >= 1
    /\ snapshots # <<>>
    /\ redo_snapshots # <<>>

\* C10: register(tracker, is_world) appends the tracker to the list the flag
\* picks and leaves the other list alone; registering something that is no
\* ActiveHistoryManager raises and leaves both lists alone; no other call
\* changes either list.
C10_AppendOnly ==
    [][ IF last'.op = "register"
        THEN IF last'.arg \in Trackers
             THEN /\ last'.exc = "none"
                  /\ world_managers' =
                        (IF last'.kind = "world"
                         THEN Append(world_managers, last'.arg)
                         ELSE world_managers)
                  /\ non_world_managers' =
                        (IF last'.kind = "non_world"
                         THEN Append(non_world_managers, last'.arg)
                         ELSE non_world_managers)
             ELSE /\ last'.ret = "raised"
                  /\ last'.exc = "AssertionError"
                  /\ world_managers' = world_managers
                  /\ non_world_managers' = non_world_managers
        ELSE /\ world_managers' = world_managers
             /\ non_world_managers' = non_world_managers ]_vars

\* C10 witness: a failed registration of a non-tracker while both lists hold
\* trackers and snapshots exist on both stacks.
C10_Witness ==
    /\ last.op = "register"
    /\ last.ret = "raised"
    /\ world_managers # <<>>
    /\ non_world_managers # <<>>
    /\ snapshots # <<>>
    /\ redo_snapshots # <<>>

(***************************************************************************)
(* Region files (amulet/formats/anvil2/anvil2_world.py).  A region file    *)
(* is kept as its byte length, the non-zero words of its offset table      *)
(* (index -> word, every other word is 0), and the chunk records it holds: *)
(* length is the payload length a record declares, doc the number of       *)
(* payload bytes the decoder needs to read the whole NBT document.  The    *)
(* decompressor and the NBT reader are outside these sources; they succeed *)
(* exactly when the bytes they are given hold the whole document.          *)
(***************************************************************************)
SECTOR_BYTES == 4096

\* x & m and x | m of Python integers (two's complement of any width),
\* m >= 0.
RECURSIVE AndNat(_, _)
AndNat(x, m) ==
    IF x = 0 \/ m = 0 THEN 0
    ELSE (IF x % 2 = 1 /\ m % 2 = 1 THEN 1 ELSE 0)
         + 2 * AndNat(x \div 2, m \div 2)

BitAnd(x, m) == IF x >= 0 THEN AndNat(x, m) ELSE m - AndNat(-x - 1, m)

BitOr(x, m) == x + m - AndNat(x, m)

\* A word of the offset table: the sector a chunk starts at in the high 24
\* bits, the number of sectors it takes in the low 8.
Word(sector, count) == sector * 256 + count

\* Lengths a header cannot be read from as it stands, and lengths that are
\* whole sectors past the header.
ShortSizes == { 0, 4096, 5000 }
SectorSizes == { 8192, 12288, 20480 }

OffsetWords == { 0, Word(2, 1), Word(2, 0), Word(3, 2) }

Slots == { 0, 31, 1023 }

Records ==
    { [ length |-> 100, doc |-> 100 ],
      [ length |-> 5000, doc |-> 100 ],
      [ length |-> 5000, doc |-> 5000 ] }

\* The non-zero words of a table.
Sparse(table) ==
    LET D == { i \in DOMAIN table : table[i] # 0 }
    IN [ i \in D |-> table[i] ]

File(size, table, record) ==
    [ size |-> size, offsets |-> Sparse(table), length |-> record.length,
      doc |-> record.doc ]

Files ==
    { File(s, [ i \in Slots |-> IF s = 0 THEN 0 ELSE Word(2, 1) ],
           [ length |-> 100, doc |-> 100 ]) : s \in ShortSizes }
    \cup { File(s, o, r) :
             s \in SectorSizes, o \in [ Slots -> OffsetWords ],
             r \in Records }

ChunkXs == { -32, -1, 0, 33 }
ChunkZs == { -1, 0 }

\* world_utils.chunk_coords_to_region_coords (spec.md 4.3): floor(c / 32).
chunk_coords_to_region_coords(cx, cz) == << cx \div 32, cz \div 32 >>

RegionKeys ==
    { chunk_coords_to_region_coords(cx, cz) : cx \in ChunkXs, cz \in ChunkZs }

\* The regions that have a file in the world directory.
OnDisk == { << 0, 0 >>, << -1, -1 >> }

\* offsets[i] of a table kept by its non-zero words.
WordAt(offsets, i) == IF i \in DOMAIN offsets THEN offsets[i] ELSE 0

\* The indexes of a table's non-zero words in increasing order.
RECURSIVE Ascending(_)
Ascending(S) ==
    IF S = {} THEN << >>
    ELSE LET m == CHOOSE x \in S : \A y \in S : x <= y
         IN << m >> \o Ascending(S \ { m })

(***************************************************************************)
(* _Anvil2RegionManager.  An entry of _loaded_regions is a dict; keys is   *)
(* the set of the keys it has.  A call runs on a record L: the files, the  *)
(* cache and the header reads it has reached, and how it ended.            *)
(***************************************************************************)
EmptyEntry ==
    [ keys |-> {}, file_size |-> 0, free_sectors |-> << >>,
      offsets |-> << >> ]

EmptyCache == [ k \in {} |-> EmptyEntry ]

Put(cache, key, entry) ==
    [ k \in DOMAIN cache \cup { key } |->
        IF k = key THEN entry ELSE cache[k] ]

RegionHere ==
    [ disk |-> disk, cache |-> _loaded_regions, reads |-> header_reads,
      ret |-> "None", exc |-> "none", why |-> "" ]

Raise(L, exc, why) == [ L EXCEPT !.ret = "raised", !.exc = exc, !.why = why ]

\* path.exists(filename)
path_exists(L, key) == key \in DOMAIN L.disk

\* if not path.exists(filename): raise FileNotFoundError()
missing_region_cached(L, key) ==
    Raise([ L EXCEPT !.cache = Put(L.cache, key, EmptyEntry) ],
          "FileNotFoundError", "exists")

missing_region(L, key) == Raise(L, "FileNotFoundError", "exists")

\* fp = open(filename, "rb")
open_mode == "rb"

\* fp.truncate(file_size): a file that is not open for writing raises
\* io.UnsupportedOperation and keeps its length.
truncate(L, key, file_size) ==
    IF open_mode \in { "rb+", "wb", "wb+", "ab" }
    THEN [ L EXCEPT !.disk[key].size = file_size ]
    ELSE Raise(L, "UnsupportedOperation", "truncate")

\* self._loaded_regions[key]["free_sectors"][0:2] = False, False
header_sectors_first_only(free) ==
    [ i \in 1..Len(free) |-> IF i <= 1 THEN FALSE ELSE free[i] ]

header_sectors(free) ==
    [ i \in 1..Len(free) |-> IF i <= 2 THEN FALSE ELSE free[i] ]

\* for i in range(sector, sector + count): sector i is free[i + 1].
RECURSIVE mark_range(_, _, _)
mark_range(free, i, stop) ==
    IF i >= stop THEN [ free |-> free, ok |-> TRUE ]
    ELSE IF i >= Len(free) THEN [ free |-> free, ok |-> FALSE ]
    ELSE mark_range([ free EXCEPT ![i + 1] = FALSE ], i + 1, stop)

\* for offset in offsets: the zero words mark nothing.
RECURSIVE mark_offsets(_, _, _)
mark_offsets(free, offsets, order) ==
    IF order = << >> THEN [ free |-> free, ok |-> TRUE ]
    ELSE LET offset == offsets[Head(order)]
             sector == offset \div 256
             count == BitAnd(offset, 255)
             m == mark_range(free, sector, sector + count)
         IN IF m.ok THEN mark_offsets(m.free, offsets, Tail(order)) ELSE m

\* load_region from the read of the header on: the file has file_size
\* bytes now.
read_header(L, key, file_size) ==
    LET free == [ i \in 1..(file_size \div SECTOR_BYTES) |-> TRUE ]
        offsets == L.disk[key].offsets
        R == [ L EXCEPT !.reads[key] = @ + 1 ]
        sized == [ EmptyEntry EXCEPT !.keys = { "file_size", "free_sectors" },
                                     !.file_size = file_size,
                                     !.free_sectors = free ]
        m == mark_offsets(header_sectors(free), offsets,
                          Ascending(DOMAIN offsets))
        full == [ keys |-> { "file_size", "free_sectors", "offsets",
                             "mod_times" },
                  file_size |-> file_size, free_sectors |-> m.free,
                  offsets |-> offsets ]
    IN IF Len(free) < 2
       THEN Raise([ R EXCEPT !.cache[key] = sized ], "ValueError", "header")
       ELSE [ R EXCEPT !.cache[key] = full,
                       !.ret = IF m.ok THEN "True" ELSE "False" ]

\* load_region when the region is not in the cache.
open_region(L, key) ==
    IF ~path_exists(L, key) THEN missing_region(L, key)
    ELSE LET L0 == [ L EXCEPT !.cache = Put(L.cache, key, EmptyEntry) ]
             size == L.disk[key].size
             padded == IF BitAnd(size, 4095) # 0
                       THEN BitOr(size, 4095) + 1 ELSE size
             L1 == IF padded # size THEN truncate(L0, key, padded) ELSE L0
             file_size == IF padded = 0 THEN SECTOR_BYTES * 2 ELSE padded
             L2 == IF L1.ret # "raised" /\ padded = 0
                   THEN truncate(L1, key, file_size) ELSE L1
         IN IF L2.ret = "raised" THEN L2 ELSE read_header(L2, key, file_size)

load_region_always_opens(L, key) == open_region(L, key)

load_region(L, key) ==
    IF key \in DOMAIN L.cache THEN [ L EXCEPT !.ret = "True" ]
    ELSE open_region(L, key)

Min(a, b) == IF a <= b THEN a ELSE b

\* (cx & 0x1F) + (cz & 0x1F) * 32
ChunkIndex_transposed(cx, cz) == BitAnd(cz, 31) + BitAnd(cx, 31) * 32

ChunkIndex(cx, cz) == BitAnd(cx, 31) + BitAnd(cz, 31) * 32

\* load_chunk once the region is in the cache: the lookup of the offset
\* word, the checks of the sector range, the read of the record and its
\* decoding.  Gives the state the call ends in, the index and the word it
\* looked up, and the number of payload bytes it handed to the decoder.
read_chunk(L, key, cx, cz) ==
    LET entry == L.cache[key]
        idx == ChunkIndex(cx, cz)
        chunk_offset == WordAt(entry.offsets, idx)
        sector_start == chunk_offset \div 256
        number_of_sectors == BitAnd(chunk_offset, 255)
        file == L.disk[key]
        start == sector_start * SECTOR_BYTES
        data == Min(number_of_sectors * SECTOR_BYTES,
                    IF file.size > start THEN file.size - start ELSE 0)
        payload == Min(file.length, data - 5)
        At(state, got) ==
            [ state |-> state, idx |-> idx, word |-> chunk_offset,
              got |-> got ]
    IN IF "offsets" \notin entry.keys
       THEN [ state |-> Raise(L, "KeyError", "offsets"), idx |-> -1,
              word |-> -1, got |-> -1 ]
       ELSE IF chunk_offset = 0
       THEN At(Raise(L, "Exception", "absent"), -1)
       ELSE IF number_of_sectors = 0
       THEN At(Raise(L, "Exception", "count"), -1)
       ELSE IF sector_start + number_of_sectors > Len(entry.free_sectors)
       THEN At(Raise(L, "Exception", "range"), -1)
       ELSE IF ~path_exists(L, key)
       THEN At(Raise(L, "FileNotFoundError", "open"), -1)
       ELSE IF data < 5
       THEN At(Raise(L, "Exception", "malformed"), -1)
       ELSE IF payload < file.doc
       THEN At(Raise(L, "DecodeError", "decode"), payload)
       ELSE At([ L EXCEPT !.ret = "data" ], payload)

load_chunk(L, cx, cz) ==
    LET key == chunk_coords_to_region_coords(cx, cz)
        R == load_region(L, key)
        None(state) ==
            [ state |-> state, idx |-> -1, word |-> -1, got |-> -1 ]
    IN IF R.ret = "raised" THEN None(R)
       ELSE IF R.ret # "True" THEN None(Raise(R, "Exception", "region"))
       ELSE read_chunk(R, key, cx, cz)

\* The call of the region manager ended in state L.
RegionCommit(op, key, cx, cz, L, idx, word, got) ==
    /\ disk' = L.disk
    /\ _loaded_regions' = L.cache
    /\ header_reads' = L.reads
    /\ rlast' = [ op |-> op, key |-> key, cx |-> cx, cz |-> cz, idx |-> idx,
                  word |-> word, ret |-> L.ret, exc |-> L.exc,
                  why |-> L.why, got |-> got ]
    /\ UNCHANGED << historyVars, codecVars, restVars, moreVars >>

Call_load_region(key) ==
    RegionCommit("load_region", key, 0, 0, load_region(RegionHere, key),
                 -1, -1, -1)

Call_load_chunk(cx, cz) ==
    LET C == load_chunk(RegionHere, cx, cz)
    IN RegionCommit("load_chunk", chunk_coords_to_region_coords(cx, cz),
                    cx, cz, C.state, C.idx, C.word, C.got)

\* A world directory whose region files all hold the same bytes, and a
\* region manager that has loaded nothing.
InitRegion ==
    /\ HistoryInit
    /\ CodecNone
    /\ RestNone
    /\ \E file \in Files : disk = [ k \in OnDisk |-> file ]
    /\ _loaded_regions = EmptyCache
    /\ header_reads = [ k \in RegionKeys |-> 0 ]
    /\ rlast = RlastNone

NextRegion ==
    \/ \E key \in RegionKeys : Call_load_region(key)
    \/ \E cx \in ChunkXs, cz \in ChunkZs : Call_load_chunk(cx, cz)

SpecRegion == InitRegion /\ [][NextRegion]_vars

(***************************************************************************)
(* Properties of the region manager.                                       *)
(***************************************************************************)
\* The sectors a word of an offset table names: [start, start + count).
SectorsOf(word) ==
    LET start == word \div 256
        count == word % 256
    IN { i \in start..(start + count) : i < start + count }

\* The step opened the region: it was not in the cache and is now, and the
\* call did not fail in load_region.
Opens(key) ==
    /\ key \notin DOMAIN _loaded_regions
    /\ key \in DOMAIN _loaded_regions'
    /\ rlast'.key = key
    /\ \/ rlast'.op = "load_region" /\ rlast'.ret = "True"
       \/ /\ rlast'.op = "load_chunk"
          /\ rlast'.why \notin { "exists", "truncate", "header", "region" }

\* C11: after a region file is opened successfully its free-sector bitmap
\* marks a sector occupied if and only if it is header sector 0 or 1 or
\* lies in [start, start + count) of a non-zero offset word of the file;
\* every other sector is free.
C11_FreeSectorBitmap ==
    [][ \A key \in RegionKeys :
          Opens(key) =>
            LET free == _loaded_regions'[key].free_sectors
                table == disk[key].offsets
            IN \A i \in 0..(Len(free) - 1) :
                 ~free[i + 1] <=>
                    \/ i \in { 0, 1 }
                    \/ \E n \in DOMAIN table :
                         table[n] # 0 /\ i \in SectorsOf(table[n]) ]_vars

\* A region was opened by load_region with a chunk past the header and a
\* free sector behind it.
C11_Witness ==
    /\ rlast.op = "load_region"
    /\ rlast.ret = "True"
    /\ header_reads[rlast.key] = 1
    /\ LET free == _loaded_regions[rlast.key].free_sectors
       IN /\ Len(free) > 3
          /\ ~free[3]
          /\ \E i \in 1..Len(free) : free[i]

\* The file is whole sectors past the header and a word of its offset
\* table names a sector beyond its end.
BeyondEnd(file) ==
    /\ file.size % SECTOR_BYTES = 0
    /\ file.size >= 2 * SECTOR_BYTES
    /\ \E n \in DOMAIN file.offsets :
         \E i \in SectorsOf(file.offsets[n]) : i >= file.size \div SECTOR_BYTES

\* C12: opening a region file fails if an offset word references sectors
\* beyond the end of the file: load_region reports failure, and load_chunk
\* on that region raises instead of returning chunk data.
C12_BeyondEndFails ==
    ( /\ rlast.op \in { "load_region", "load_chunk" }
      /\ rlast.key \in DOMAIN disk
      /\ BeyondEnd(disk[rlast.key]) )
    => rlast.ret \notin { "True", "data" }

\* C13: reading a chunk fails, rather than returning data, when the sector
\* range its offset word declares is inconsistent (count 0, or start + count
\* past the end of the file) or when the payload length its record declares
\* exceeds that range (length + 5 > count * 4096); the payload is never
\* silently truncated to the allocated sectors.
C13_InconsistentRecordFails ==
    ( /\ rlast.op = "load_chunk"
      /\ rlast.word > 0
      /\ LET file == disk[rlast.key]
             start == rlast.word \div 256
             count == rlast.word % 256
         IN \/ count = 0
            \/ start + count > file.size \div SECTOR_BYTES
            \/ file.length + 5 > count * SECTOR_BYTES )
    => rlast.ret # "data"

\* The local coordinate of c in its region: c modulo 32, in 0..31.
Local(c) == CHOOSE r \in 0..31 : \E q \in -4..4 : c = 32 * q + r

\* C14: reading chunk (cx, cz) looks up the offset word of the local
\* coordinate (cx & 31, cz & 31), table index (cx & 31) + 32 * (cz & 31),
\* for negative coordinates too, and fails with a chunk-absent error when
\* that word is zero.
C14_LocalIndex ==
    ( /\ rlast.op = "load_chunk"
      /\ rlast.why \notin { "exists", "truncate", "header", "region",
                            "offsets" } )
    => /\ rlast.idx = Local(rlast.cx) + 32 * Local(rlast.cz)
       /\ rlast.word = WordAt(disk[rlast.key].offsets, rlast.idx)
       /\ rlast.word = 0 =>
            rlast.ret = "raised" /\ rlast.exc = "Exception"
                                 /\ rlast.why = "absent"

\* A chunk with negative coordinates was looked up at the index of its
\* local coordinate and found absent, and the table has a word at the
\* transposed index.
C14_Witness ==
    /\ rlast.op = "load_chunk"
    /\ rlast.cx = -32 /\ rlast.cz = -1
    /\ rlast.idx = 992
    /\ rlast.why = "absent"
    /\ WordAt(disk[rlast.key].offsets, 31) # 0

\* C15: after a region file of any byte length is opened, its length is a
\* whole number of 4096-byte sectors that covers the two header sectors (a
\* length that is not a sector multiple is extended to the next boundary,
\* an empty file becomes 8192 bytes), and the bitmap has exactly
\* file_size / 4096 entries.
C15_WholeSectors ==
    \A key \in DOMAIN _loaded_regions :
      /\ disk[key].size % SECTOR_BYTES = 0
      /\ disk[key].size >= 2 * SECTOR_BYTES
      /\ "free_sectors" \in _loaded_regions[key].keys
      /\ Len(_loaded_regions[key].free_sectors)
           = disk[key].size \div SECTOR_BYTES

\* C16: the region manager opens a region on first access and keeps it: in
\* any sequence of calls the header of a region is read from disk at most
\* once, an access to a region in the cache reads nothing and leaves its
\* entry as it is, and no call removes an entry.
C16_OpenedOnceAndKept ==
    [][ \A key \in RegionKeys :
          /\ header_reads'[key] <= 1
          /\ key \in DOMAIN _loaded_regions =>
               /\ key \in DOMAIN _loaded_regions'
               /\ _loaded_regions'[key] = _loaded_regions[key]
               /\ header_reads'[key] = header_reads[key] ]_vars

\* A chunk was read from a region that an earlier call had opened: the
\* header was read once and both regions of the directory are kept.
C16_Witness ==
    /\ rlast.op = "load_chunk"
    /\ rlast.ret = "data"
    /\ header_reads[rlast.key] = 1
    /\ DOMAIN _loaded_regions = OnDisk
    /\ \A key \in OnDisk : header_reads[key] = 1

\* C17: a read of a chunk whose region file does not exist on disk fails
\* with an error and leaves the cache of loaded regions unchanged: no entry
\* is created for the missing region.
C17_MissingRegion ==
    [][ ( rlast'.op = "load_chunk" /\ rlast'.key \notin DOMAIN disk )
        => /\ rlast'.ret = "raised"
           /\ rlast'.exc = "FileNotFoundError"
           /\ _loaded_regions' = _loaded_regions
           /\ rlast'.key \notin DOMAIN _loaded_regions' ]_vars

\* A chunk of a region without a file was asked for while another region
\* was in the cache.
C17_Witness ==
    /\ rlast.op = "load_chunk"
    /\ rlast.key \notin DOMAIN disk
    /\ rlast.ret = "raised"
    /\ _loaded_regions # EmptyCache

(***************************************************************************)
(* The long-array codec (_decode_long_array, _encode_long_array).  Arrays  *)
(* of bits are sequences of 0 and 1; a long is its 64 bits, most           *)
(* significant first, which is what the products with the powers of two    *)
(* leave in a signed 64-bit word.                                          *)
(***************************************************************************)
Reverse(s) == [ i \in 1..Len(s) |-> s[Len(s) + 1 - i] ]

\* rows.reshape(-1)
RECURSIVE Flatten(_)
Flatten(rows) ==
    IF rows = << >> THEN << >> ELSE Head(rows) \o Flatten(Tail(rows))

\* bits.reshape(-1, width), for a width that divides the number of bits
Reshape(bits, width) ==
    [ r \in 1..(Len(bits) \div width) |->
        SubSeq(bits, (r - 1) * width + 1, r * width) ]

\* The n low bits of v >= 0, most significant first.
RECURSIVE BitsOf(_, _)
BitsOf(v, n) ==
    IF n = 0 THEN << >> ELSE Append(BitsOf(v \div 2, n - 1), v % 2)

\* numpy.unpackbits(data_array.astype(">i2").view("uint8")).reshape(-1, 16):
\* the 16 bits of the two's complement of a value.
Int16Bits(v) == BitsOf(IF v < 0 THEN v + 65536 ELSE v, 16)

\* row.dot(2 ** numpy.arange(len(row) - 1, -1, -1))
RECURSIVE Dot(_)
Dot(row) == IF row = << >> THEN 0 ELSE 2 * Dot(Front(row)) + Last(row)

\* int(ceil(log(palette_size, 2))): the least k with 2^k >= palette_size.
RECURSIVE CeilLog2(_)
CeilLog2(n) == IF n <= 1 THEN 0 ELSE 1 + CeilLog2((n + 1) \div 2)

\* bits_per_block = max(4, int(ceil(log(palette_size, 2))))
bits_per_block_no_floor(palette_size) == CeilLog2(palette_size)

bits_per_block(palette_size) ==
    IF CeilLog2(palette_size) > 4 THEN CeilLog2(palette_size) ELSE 4

_encode_long_array(data_array, palette_size) ==
    LET bits == bits_per_block(palette_size)
        rows == [ i \in 1..Len(data_array) |->
                    SubSeq(Int16Bits(data_array[i]), 17 - bits, 16) ]
        binary_blocks == Flatten(Reverse(rows))
        pad == (64 - Len(data_array) * bits) % 64
    IN Reverse(Reshape([ i \in 1..pad |-> 0 ] \o binary_blocks, 64))

\* reshape(-1, bits_per_block) raises ValueError when the width is 0 or does
\* not divide the number of bits; ok tells whether the call returned.
_decode_long_array(long_array, size) ==
    LET bits == (Len(long_array) * 64) \div size
        stream == Flatten(Reverse(long_array))
    IN IF bits = 0 \/ Len(stream) % bits # 0
       THEN [ ok |-> FALSE, out |-> << >> ]
       ELSE LET blocks == Reshape(stream, bits)
                values == Reverse([ r \in 1..Len(blocks) |-> Dot(blocks[r]) ])
            IN [ ok |-> TRUE, out |-> SubSeq(values, 1, size) ]

\* The arrays and palette sizes the codec is called with: lengths that
\* fill whole longs at every width (64), that do not (16), and a single
\* value; values i -> (a * i + b) mod palette_size.
Lengths == { 1, 16, 64 }
PaletteSizes == 1..17 \cup { 257 }
Steps == { 0, 1, 3 }
Starts == { 0, 1 }

Pattern(length, a, b, palette_size) ==
    [ i \in 1..length |-> (a * (i - 1) + b) % palette_size ]

\* The element counts a long array is decoded with: the length of the
\* array it was encoded from, and two that it was not.
SizesFor(values) == { Len(values), 13, 32 }

Call_encode(values, palette_size) ==
    /\ codec' = [ CodecIdle EXCEPT
                    !.op = "encode", !.values = values,
                    !.palette_size = palette_size,
                    !.bits = bits_per_block(palette_size),
                    !.words = _encode_long_array(values, palette_size),
                    !.encoded = TRUE ]
    /\ UNCHANGED << historyVars, regionVars, restVars, moreVars >>

\* The long array the last encode gave is decoded as size elements.
Call_decode(size) ==
    /\ codec.encoded
    /\ LET d == _decode_long_array(codec.words, size)
       IN codec' = [ codec EXCEPT !.op = "decode", !.size = size,
                                  !.ok = d.ok, !.out = d.out ]
    /\ UNCHANGED << historyVars, regionVars, restVars, moreVars >>

\* The values the last decode gave, decoded with the element count the long
\* array was encoded from, are encoded again with the same palette size.
Call_reencode ==
    /\ codec.op = "decode"
    /\ codec.ok
    /\ codec.size = Len(codec.values)
    /\ codec' = [ codec EXCEPT
                    !.op = "reencode",
                    !.again = _encode_long_array(codec.out,
                                                 codec.palette_size) ]
    /\ UNCHANGED << historyVars, regionVars, restVars, moreVars >>

\* The codec before its first call, with the array and the palette size it
\* is going to be called with.
InitCodec ==
    /\ HistoryInit
    /\ RegionNone
    /\ RestNone
    /\ \E length \in Lengths, a \in Steps, b \in Starts,
          palette_size \in PaletteSizes :
         codec = [ CodecIdle EXCEPT
                     !.values = Pattern(length, a, b, palette_size),
                     !.palette_size = palette_size ]

NextCodec ==
    \/ Call_encode(codec.values, codec.palette_size)
    \/ \E size \in SizesFor(codec.values) : Call_decode(size)
    \/ Call_reencode

SpecCodec == InitCodec /\ [][NextCodec]_vars

(***************************************************************************)
(* Properties of the codec.                                                *)
(***************************************************************************)
\* C18: round trip: for arrays of length L in {1, 16, 4096} whose values
\* are below the palette size p, p in {1, 2, 16, 257},
\* _decode_long_array(_encode_long_array(values, p), L) equals values.
C18_RoundTrip ==
    ( /\ codec.op = "decode"
      /\ codec.size = Len(codec.values)
      /\ Len(codec.values) \in { 1, 16, 4096 }
      /\ codec.palette_size \in { 1, 2, 16, 257 } )
    => codec.ok /\ codec.out = codec.values

\* C19: decode fails, and never truncates or guesses, when
\* len(words) * 64 is not evenly divisible to give the declared element
\* count at the implied bit width, or when the implied bit width
\* (len(words) * 64 div element_count) is below the 4-bit floor of encode.
C19_DecodeRejects ==
    ( /\ codec.op = "decode"
      /\ \/ (Len(codec.words) * 64) % codec.size # 0
         \/ (Len(codec.words) * 64) \div codec.size < 4 )
    => ~codec.ok

\* C20: encoding uses max(4, ceil(log2(palette_size))) bits per value,
\* which is 4 for every palette size from 1 to 16 and 5 for 17, and the
\* encoded stream has ceil(N * bits_per_value / 64) words.
C20_BitWidthFloor ==
    codec.op = "encode" =>
      LET p == codec.palette_size
          least == CHOOSE k \in 0..16 :
                     /\ 2^k >= p
                     /\ \A j \in 0..16 : 2^j >= p => k <= j
          N == Len(codec.values)
      IN /\ codec.bits = (IF least > 4 THEN least ELSE 4)
         /\ p \in 1..16 => codec.bits = 4
         /\ p = 17 => codec.bits = 5
         /\ Len(codec.words) = (N * codec.bits + 63) \div 64
         /\ \A w \in 1..Len(codec.words) : Len(codec.words[w]) = 64

\* Sixteen values were encoded with a palette of 17: 5 bits each, 80 bits,
\* two longs.
C20_Witness ==
    /\ codec.op = "encode"
    /\ Len(codec.values) = 16
    /\ codec.palette_size = 17
    /\ codec.bits = 5
    /\ Len(codec.words) = 2

\* C21: encode(decode(x)) = x: for a long array x that an encode with
\* palette size p gave for N values, decoding x as N values and encoding
\* them again with p gives x word for word, in the same order and with the
\* same padding bits.
C21_ReencodeIdentity ==
    codec.op = "reencode" => codec.again = codec.words

(***************************************************************************)
(* Partial 3-D arrays (amulet/api/partial_3d_array/                        *)
(* base_partial_3d_array.py).  dicts is the heap of section dicts, each a  *)
(* function from keys to sections; an array holds the index of its dict    *)
(* in _sections, so two arrays with the same index hold the same object.   *)
(* A key says whether it is an int; a section has a shape, a dtype and its *)
(* contents.  Optional arguments are sequences of length 0 (None) or 1.    *)
(* The subclasses that write sections are not part of the sources at hand; *)
(* writing is modelled from spec.md 4.4.                                   *)
(***************************************************************************)
MaxArrays == 2

Dtypes == { "uint32", "bool" }
SectionShapes == { << 16, 16, 16 >>, << 16, 8, 16 >> }

\* What start[1] and stop[1] can be: None, an int, or something else.
YKinds == { "None", "int", "float" }

IntKey(n) == [ int |-> TRUE, v |-> n ]
StrKey(n) == [ int |-> FALSE, v |-> n ]

Section(shape, dtype, fill) == [ shape |-> shape, dtype |-> dtype, fill |-> fill ]

EmptyDict == [ k \in {} |-> Section(<< 16, 16, 16 >>, "uint32", 0) ]

\* The dicts a caller hands to the constructor as sections.
CallerDicts ==
    LET good == Section(<< 16, 16, 16 >>, "uint32", 0)
        flat == Section(<< 16, 8, 16 >>, "uint32", 0)
        bool == Section(<< 16, 16, 16 >>, "bool", 0)
    IN { EmptyDict,
         [ k \in { IntKey(0) } |-> good ],
         [ k \in { IntKey(0) } |-> flat ],
         [ k \in { IntKey(0) } |-> bool ],
         [ k \in { StrKey(0) } |-> good ],
         [ k \in { IntKey(0), IntKey(1) } |->
             IF k = IntKey(0) THEN good ELSE flat ] }

\* item in self._sections
__contains__(P, array, item) == item \in DOMAIN P.dicts[P.arrays[array].sections]

\* assert (start_y is None and stop_y is None) or (both are ints)
y_ok(start_y, stop_y) ==
    \/ start_y = "None" /\ stop_y = "None"
    \/ start_y = "int" /\ stop_y = "int"

\* for key, section in self._sections.items(): the three asserts
sections_ok_keys_only(dict, dtype, section_shape) ==
    \A key \in DOMAIN dict : key.int

sections_ok(dict, dtype, section_shape) ==
    \A key \in DOMAIN dict :
      /\ key.int
      /\ dict[key].shape = section_shape
      /\ dict[key].dtype = dtype

\* self._sections = parent_array._sections: the dict the new array holds,
\* and the heap afterwards.
parent_sections_copied(P, parent_array) ==
    [ dicts |-> Append(P.dicts, P.dicts[P.arrays[parent_array].sections]),
      ref |-> Len(P.dicts) + 1 ]

parent_sections(P, parent_array) ==
    [ dicts |-> P.dicts, ref |-> P.arrays[parent_array].sections ]

\* BasePartial3DArray.__init__.  parent_array is 0 for None, the number of
\* an array, or -1 for an object that is not an array.  Gives the heap and
\* the arrays afterwards and what was raised.
BasePartial3DArray(P, dtype, section_shape, start_y, stop_y, parent_array, sections) ==
    LET Failed(exc, at) ==
            [ dicts |-> P.dicts, arrays |-> P.arrays, exc |-> exc,
              at |-> at ]
        Made(dicts, ref) ==
            [ dicts |-> dicts,
              arrays |-> Append(P.arrays,
                                [ dtype |-> dtype,
                                  section_shape |-> section_shape,
                                  start_y |-> start_y, stop_y |-> stop_y,
                                  parent |-> parent_array,
                                  sections |-> ref ]),
              exc |-> "none", at |-> "" ]
    IN IF ~y_ok(start_y, stop_y) THEN Failed("AssertionError", "y")
       ELSE IF parent_array = 0
       THEN LET dict == IF sections = << >> \/ DOMAIN sections[1] = {}
                        THEN EmptyDict ELSE sections[1]
            IN IF sections_ok(dict, dtype, section_shape)
               THEN Made(Append(P.dicts, dict), Len(P.dicts) + 1)
               ELSE Failed("AssertionError", "sections")
       ELSE IF parent_array > 0
       THEN IF /\ P.arrays[parent_array].section_shape = section_shape
               /\ P.arrays[parent_array].dtype = dtype
            THEN LET shared == parent_sections(P, parent_array)
                 IN Made(shared.dicts, shared.ref)
            ELSE Failed("AssertionError", "parent")
       ELSE Failed("Exception", "parent")

\* A write of value into section cy through an array (spec.md 4.4): the
\* section is made with the array's shape and dtype on first touch.
write_section(P, array, cy, value) ==
    LET a == P.arrays[array]
    IN [ P EXCEPT !.dicts[a.sections] =
           [ k \in DOMAIN @ \cup { IntKey(cy) } |->
               IF k = IntKey(cy)
               THEN Section(a.section_shape, a.dtype, value) ELSE @[k] ] ]

ArrayHere == [ dicts |-> parray.dicts, arrays |-> parray.arrays ]

Call_BasePartial3DArray(dtype, section_shape, start_y, stop_y, parent_array, sections) ==
    /\ Len(parray.arrays) < MaxArrays
    /\ LET R == BasePartial3DArray(ArrayHere, dtype, section_shape, start_y,
                                   stop_y, parent_array, sections)
       IN parray' = [ op |-> "__init__", dicts |-> R.dicts,
                      arrays |-> R.arrays, exc |-> R.exc, at |-> R.at ]
    /\ UNCHANGED << moreVars, historyVars, regionVars, codecVars, save, blockworld,
                    loader >>

Call_write_section(array, cy, value) ==
    /\ LET R == write_section(ArrayHere, array, cy, value)
       IN parray' = [ op |-> "write", dicts |-> R.dicts, arrays |-> R.arrays,
                      exc |-> "none", at |-> "" ]
    /\ UNCHANGED << moreVars, historyVars, regionVars, codecVars, save, blockworld,
                    loader >>

InitArray ==
    /\ HistoryInit /\ RegionNone /\ CodecNone /\ MoreNone
    /\ SaveNone /\ BlockNone /\ LoaderNone
    /\ parray = [ op |-> "init", dicts |-> << >>, arrays |-> << >>,
                  exc |-> "none", at |-> "" ]

NextArray ==
    \/ \E dtype \in Dtypes, section_shape \in SectionShapes,
          start_y \in YKinds, stop_y \in YKinds,
          sections \in { << >> } \cup { << d >> : d \in CallerDicts } :
         Call_BasePartial3DArray(dtype, section_shape, start_y, stop_y, 0,
                                 sections)
    \/ \E dtype \in Dtypes, section_shape \in SectionShapes,
          start_y \in YKinds, stop_y \in YKinds,
          parent_array \in { -1 } \cup (1..Len(parray.arrays)) :
         Call_BasePartial3DArray(dtype, section_shape, start_y, stop_y,
                                 parent_array, << >>)
    \/ \E array \in 1..Len(parray.arrays), cy \in { 0, 1 } :
         Call_write_section(array, cy, 1)

SpecArray == InitArray /\ [][NextArray]_vars

(***************************************************************************)
(* Properties of the partial 3-D arrays.                                   *)
(***************************************************************************)
\* C22: a view made with parent_array shares the parent's section mapping:
\* at every moment the materialized section indices, and the sections,
\* seen through the view are those seen through the parent, so a section
\* added or changed through either is visible through the other.
C22_SharedSections ==
    \A a \in 1..Len(parray.arrays) :
      LET view == parray.arrays[a]
      IN view.parent > 0 =>
           /\ \A item \in { IntKey(0), IntKey(1), StrKey(0) } :
                __contains__(parray, a, item)
                  = __contains__(parray, view.parent, item)
           /\ parray.dicts[view.sections]
                = parray.dicts[parray.arrays[view.parent].sections]

\* A section was written through an array while a view of a parent
\* exists, and the view shows a section 1 with the written contents.
C22_Witness ==
    /\ parray.op = "write"
    /\ \E a \in 1..Len(parray.arrays) :
         /\ parray.arrays[a].parent > 0
         /\ __contains__(parray, a, IntKey(1))
         /\ parray.dicts[parray.arrays[a].sections][IntKey(1)].fill = 1

\* C23: every materialized section of an array has the array's
\* section_shape and dtype under an int key: construction from sections
\* fails unless every key is an int and every section has that shape and
\* dtype, construction over a parent fails unless the parent's
\* section_shape and dtype match, and y start and stop are both None or
\* both ints.
C23_SectionsWellFormed ==
    \A a \in 1..Len(parray.arrays) :
      LET array == parray.arrays[a]
          dict == parray.dicts[array.sections]
      IN /\ \A key \in DOMAIN dict :
              /\ key.int
              /\ dict[key].shape = array.section_shape
              /\ dict[key].dtype = array.dtype
         /\ array.parent > 0 =>
              /\ parray.arrays[array.parent].section_shape
                   = array.section_shape
              /\ parray.arrays[array.parent].dtype = array.dtype
         /\ << array.start_y, array.stop_y >>
              \in { << "None", "None" >>, << "int", "int" >> }

\* A construction from sections was refused while an array made from a
\* caller's sections exists.
C23_Witness ==
    /\ parray.op = "__init__"
    /\ parray.exc = "AssertionError"
    /\ parray.at = "sections"
    /\ \E a \in 1..Len(parray.arrays) :
         DOMAIN parray.dicts[parray.arrays[a].sections] # {}

(***************************************************************************)
(* BaseLevel.save_iter (base_level.py).  The level's chunk cache and its   *)
(* history are outside the sources at hand: a chunk is kept as what        *)
(* get_chunk gives for it (the chunk, ChunkDoesNotExist for a deleted one, *)
(* ChunkLoadError) and its changed flag; changed_chunks() gives the chunks *)
(* whose flag is set and history_manager.mark_saved() clears the flags and *)
(* the unsaved state of the history (spec.md 4.5, 4.6).  save_iter is a    *)
(* generator: a step runs it from where it stands to its next yield, to    *)
(* its end or to the exception that leaves it.                             *)
(***************************************************************************)
SaveChunks == << "c1", "c2", "c3" >>

DimensionOf(c) == IF c = "c3" THEN "nether" ELSE "overworld"

\* wrapper.dimensions of the level's own wrapper and of another wrapper
WrapperDimensions(own) ==
    IF own THEN { "overworld", "nether" } ELSE { "overworld" }

\* self.level_wrapper.all_chunk_coords(dimension), over the dimensions of
\* the level's own wrapper
DiskChunks == << "c1", "c3" >>

\* What a call of the wrapper raises in a step ("none": it returns).
WriteFailures == { "none", "OSError", "ChunkLoadError" }

\* list(self._chunks.changed_chunks())
changed_chunks(S) == SelectSeq(SaveChunks, LAMBDA c : S.chunks[c].changed)

Event(S, op, c) == [ S EXCEPT !.events = Append(@, [ op |-> op, c |-> c ]) ]

\* A save_iter that marks the history saved on its way out (try/finally).
Raised_marks_saved(S, exc, at) ==
    [ S EXCEPT !.pc = "raised", !.exc = exc, !.at = at, !.unsaved = FALSE,
               !.events = Append(@, [ op |-> "mark_saved", c |-> "" ]),
               !.chunks = [ c \in DOMAIN @ |-> [ @[c] EXCEPT !.changed = FALSE ] ] ]

Raised(S, exc, at) == [ S EXCEPT !.pc = "raised", !.exc = exc, !.at = at ]

\* self.history_manager.mark_saved()
history_mark_saved(S) ==
    [ Event(S, "mark_saved", "") EXCEPT
        !.unsaved = FALSE,
        !.chunks = [ c \in DOMAIN @ |-> [ @[c] EXCEPT !.changed = FALSE ] ] ]

\* A set-up that lists every chunk of the cache.
begin_all_chunks(S, own) ==
    [ S EXCEPT !.pc = IF own THEN "loop" ELSE "convert", !.own = own,
               !.list = SaveChunks,
               !.dirty = { c \in DOMAIN S.chunks : S.chunks[c].changed },
               !.pos = 0, !.cpos = 0, !.events = << >>, !.exc = "none",
               !.at = "", !.chunk_index = 0, !.progress = << >>,
               !.chunk_count =
                  Len(SaveChunks) + IF own THEN 0 ELSE Len(DiskChunks) ]

\* save_iter up to its first statement after the set-up: the changed
\* chunks are listed, the wrapper is chosen.
begin(S, own) ==
    [ S EXCEPT !.pc = IF own THEN "loop" ELSE "convert", !.own = own,
               !.list = changed_chunks(S),
               !.dirty = { c \in DOMAIN S.chunks : S.chunks[c].changed },
               !.pos = 0, !.cpos = 0, !.events = << >>, !.exc = "none",
               !.at = "", !.chunk_index = 0, !.progress = << >>,
               !.chunk_count =
                  Len(changed_chunks(S)) + IF own THEN 0 ELSE Len(DiskChunks) ]

\* chunk_index += 1; yield chunk_index, chunk_count
yield_progress(S) ==
    [ S EXCEPT !.chunk_index = @ + 1,
               !.progress = Append(@, << S.chunk_index + 1, S.chunk_count >>) ]

\* self.history_manager.mark_saved(); wrapper.save()
finish(S, fail) ==
    LET M == history_mark_saved(S)
    IN IF fail # "none" THEN Raised(M, fail, "save")
       ELSE [ Event(M, "save", "") EXCEPT !.pc = "done" ]

\* for dimension, cx, cz in changed_chunks: ... up to the next yield
RECURSIVE loop(_, _)
loop(S, fail) ==
    IF S.pos >= Len(S.list) THEN finish(S, fail)
    ELSE LET c == S.list[S.pos + 1]
             N == [ S EXCEPT !.pos = @ + 1 ]
         IN IF DimensionOf(c) \notin WrapperDimensions(S.own)
            THEN loop(N, fail)
            ELSE IF S.chunks[c].state = "deleted"
            THEN IF fail # "none" THEN Raised(S, fail, "delete_chunk")
                 ELSE yield_progress(Event(N, "delete_chunk", c))
            ELSE IF S.chunks[c].state = "error" THEN yield_progress(N)
            ELSE IF fail # "none" THEN Raised(S, fail, "commit_chunk")
            ELSE yield_progress([ Event(N, "commit_chunk", c) EXCEPT
                                    !.chunks[c].changed = FALSE ])

\* The save-as loop over the chunks of the level's own wrapper, up to the
\* next yield; a dimension the output wrapper has not is passed over, a
\* ChunkLoadError of load_chunk or commit_chunk is logged and the loop goes
\* on.
RECURSIVE convert(_, _)
convert(S, fail) ==
    IF S.cpos >= Len(DiskChunks) THEN loop([ S EXCEPT !.pc = "loop" ], fail)
    ELSE LET c == DiskChunks[S.cpos + 1]
             N == [ S EXCEPT !.cpos = @ + 1 ]
         IN IF DimensionOf(c) \notin WrapperDimensions(S.own)
            THEN convert(N, fail)
            ELSE IF fail = "ChunkLoadError" THEN yield_progress(N)
            ELSE IF fail # "none" THEN Raised(S, fail, "convert")
            ELSE yield_progress(Event(N, "convert", c))

\* next(save_iter(wrapper)): a generator that has ended is made anew.
save_iter(S, own, fail) ==
    LET B == IF S.pc \in { "convert", "loop" } THEN S ELSE begin(S, own)
    IN IF B.pc = "convert" THEN convert(B, fail) ELSE loop(B, fail)

SaveCommit(op, S) ==
    /\ save' = [ S EXCEPT !.op = op ]
    /\ UNCHANGED << moreVars, historyVars, regionVars, codecVars, parray, blockworld, loader >>

SaveHere == save.op # "init"

\* An edit of a chunk (or its creation): the chunk is there and changed.
Call_put_chunk(c) ==
    /\ SaveHere
    /\ SaveCommit("put_chunk",
         [ save EXCEPT !.chunks[c] = [ state |-> "loaded", changed |-> TRUE ],
                       !.unsaved = TRUE ])

\* The deletion of a chunk: get_chunk raises ChunkDoesNotExist for it.
Call_delete_chunk(c) ==
    /\ SaveHere
    /\ save.chunks[c].state # "deleted"
    /\ SaveCommit("delete_chunk",
         [ save EXCEPT !.chunks[c] = [ state |-> "deleted", changed |-> TRUE ],
                       !.unsaved = TRUE ])

Call_save_iter(own, fail) ==
    /\ SaveHere
    /\ SaveCommit("save_iter", save_iter(save, own, fail))

InitSave ==
    /\ HistoryInit /\ RegionNone /\ CodecNone /\ MoreNone
    /\ ArrayNone /\ BlockNone /\ LoaderNone
    /\ \E states \in [ { "c1", "c2", "c3" } -> { "loaded", "error" } ] :
         save = [ op |-> "new",
                  chunks |-> [ c \in { "c1", "c2", "c3" } |->
                                 [ state |-> states[c], changed |-> FALSE ] ],
                  pc |-> "idle", own |-> TRUE, list |-> << >>, dirty |-> { },
                  pos |-> 0, cpos |-> 0, events |-> << >>, exc |-> "none",
                  at |-> "", unsaved |-> FALSE, chunk_index |-> 0,
                  chunk_count |-> 0, progress |-> << >> ]

NextSave ==
    \/ \E c \in { "c1", "c2", "c3" } : Call_put_chunk(c)
    \/ \E c \in { "c1", "c2", "c3" } : Call_delete_chunk(c)
    \/ \E own \in BOOLEAN, fail \in WriteFailures : Call_save_iter(own, fail)

SpecSave == InitSave /\ [][NextSave]_vars

WriteOps == { "commit_chunk", "delete_chunk" }

EventsOf(S, ops) == SelectSeq(S.events, LAMBDA e : e.op \in ops)

\* C24: save_iter with the level's own wrapper passes to commit_chunk or
\* delete_chunk only chunks that changed_chunks() reported when the save
\* began, each at most once, and a chunk it writes is marked changed when it
\* is written.
C24_OnlyDirtyWritten ==
    [][ (save'.op = "save_iter" /\ save'.own) =>
          LET old == IF save.pc \in { "convert", "loop" }
                     THEN Len(EventsOf(save, WriteOps)) ELSE 0
              written == EventsOf(save', WriteOps)
          IN /\ \A i \in DOMAIN written :
                  /\ written[i].c \in save'.dirty
                  /\ \A j \in DOMAIN written : written[j].c = written[i].c => j = i
             /\ \A i \in (old + 1) .. Len(written) : save.chunks[written[i].c].changed
      ]_vars

C24_Witness ==
    /\ save.op = "save_iter" /\ save.own /\ save.pc = "done"
    /\ \E e \in { "c1", "c2", "c3" } : e \notin save.dirty
    /\ \E i, j \in DOMAIN save.events :
         save.events[i].op = "commit_chunk" /\ save.events[j].op = "delete_chunk"

\* C25: during save_iter the history manager's mark_saved() takes effect only
\* after the wrapper's final save() has completed: when that save() raises,
\* the history has not been marked saved.
C25_MarkSavedAfterSave ==
    save.op = "save_iter" =>
      /\ \A i \in DOMAIN save.events :
           save.events[i].op = "mark_saved" =>
             \E j \in 1 .. (i - 1) : save.events[j].op = "save"
      /\ (save.pc = "raised" /\ save.at = "save") =>
           EventsOf(save, { "mark_saved" }) = << >>

\* C26: when commit_chunk raises for a changed chunk, the exception leaves
\* save_iter in that step, the chunk is not recorded as written, it and every
\* chunk of the list not yet processed keep their changed flag, the final
\* save() is not called and the history is not marked saved.
C26_CommitFailurePropagates ==
    (save.op = "save_iter" /\ save.pc = "raised" /\ save.at = "commit_chunk") =>
      /\ save.exc \in WriteFailures \ { "none" }
      /\ \A k \in (save.pos + 1) .. Len(save.list) : save.chunks[save.list[k]].changed
      /\ \A i \in DOMAIN save.events :
           save.events[i].op \in WriteOps => save.events[i].c # save.list[save.pos + 1]
      /\ EventsOf(save, { "mark_saved", "save" }) = << >>
      /\ save.unsaved

C26_Witness ==
    /\ save.op = "save_iter" /\ save.pc = "raised" /\ save.at = "commit_chunk"
    /\ save.pos = 1 /\ Len(save.list) = 3
    /\ EventsOf(save, WriteOps) # << >>

\* C37: the pairs (chunk_index, chunk_count) that save_iter yields have one
\* chunk_count, a chunk_index that starts at 1, grows by 1 with each pair
\* and never exceeds chunk_count, and the last pair of a save that ran to
\* its end has chunk_index = chunk_count.
C37_ProgressCounts ==
    save.op = "save_iter" =>
      /\ \A k \in DOMAIN save.progress :
           /\ save.progress[k][1] = k
           /\ save.progress[k][2] = save.progress[1][2]
           /\ save.progress[k][1] <= save.progress[k][2]
      /\ (save.pc = "done" /\ save.progress # << >>) =>
           save.progress[Len(save.progress)][1]
             = save.progress[Len(save.progress)][2]

(***************************************************************************)
(* BaseLevel.set_version_block (base_level.py).  A                          *)
(* block is its format and its name; the translation manager, which is not *)
(* among the sources, is kept as what a conversion is: to_universal gives  *)
(* the universal name of a version's block in the universal format and     *)
(* from_universal the reverse.  A chunk holds one column of blocks; the    *)
(* model follows the block of one height.                                   *)
(***************************************************************************)
Versions == { "java", "bedrock" }

\* The names of a block in each format; a row is one block.
BlockTable ==
    { [ java |-> "grass_path", bedrock |-> "grass_path", universal |-> "dirt_path" ],
      [ java |-> "stone", bedrock |-> "stone", universal |-> "stone" ],
      [ java |-> "chest", bedrock |-> "chest", universal |-> "chest" ] }

BlockNames == { "grass_path", "stone" }

EntityNames == { "None", "chest" }

NoEntity == "None"

Block(format, name) == [ format |-> format, name |-> name ]

Air == Block("universal", "air")

\* translation_manager.get_version(*version).block.to_universal(block, block_entity)
to_universal(version, block, block_entity) ==
    LET row(name) == CHOOSE r \in BlockTable : r[version] = name
    IN [ block |-> Block("universal", row(block.name).universal),
         block_entity |-> IF block_entity = NoEntity THEN NoEntity
                          ELSE Block("universal", row(block_entity.name).universal) ]

\* block_coords_to_chunk_coords(x, z): floor division by the chunk width
block_coords_to_chunk_coords(x) == IF x >= 0 THEN x \div 16 ELSE -((15 - x) \div 16)

BlockXs == { -1, 17 }

ChunkCoords == { block_coords_to_chunk_coords(x) : x \in BlockXs }

\* Chunk(cx, cz): air everywhere, no block entity
NewChunk == [ state |-> "loaded", blocks |-> [ o \in 0 .. 15 |-> Air ],
              block_entities |-> [ x \in BlockXs |-> "absent" ] ]

MissingChunk == [ state |-> "missing" ]

BrokenChunk == [ state |-> "error" ]

\* set_version_block(x, y, z, dimension, version, block, block_entity): the
\* universal pair is computed, the given pair is what chunk.set_block and
\* chunk.block_entities receive.
set_version_block(W, x, version, block, block_entity) ==
    LET cx == block_coords_to_chunk_coords(x)
        offset_x == x - 16 * cx
    IN IF W.chunks[cx].state = "error"
       THEN [ W EXCEPT !.exc = "ChunkLoadError" ]
       ELSE LET chunk == IF W.chunks[cx].state = "missing" THEN NewChunk
                         ELSE W.chunks[cx]
                universal == to_universal(version, block, block_entity)
            IN [ W EXCEPT !.exc = "none",
                          !.created = (W.chunks[cx].state = "missing"),
                          !.chunks[cx] =
                             [ chunk EXCEPT !.blocks[offset_x] = block,
                                            !.block_entities[x] = block_entity ] ]

BlockHere == blockworld.op # "init"

Call_set_version_block(x, version, block, block_entity) ==
    /\ BlockHere
    /\ blockworld' = [ set_version_block(blockworld, x, version, block, block_entity)
                         EXCEPT !.op = "set_version_block", !.x = x,
                                !.version = version, !.block = block,
                                !.block_entity = block_entity ]
    /\ UNCHANGED << moreVars, historyVars, regionVars, codecVars, parray, save, loader >>

\* delete_chunk(cx, cz, dimension)
Call_block_delete_chunk(cx) ==
    /\ BlockHere
    /\ blockworld.chunks[cx].state = "loaded"
    /\ blockworld' = [ blockworld EXCEPT !.op = "delete_chunk", !.exc = "none",
                                         !.created = FALSE,
                                         !.chunks[cx] = MissingChunk ]
    /\ UNCHANGED << moreVars, historyVars, regionVars, codecVars, parray, save, loader >>

InitBlock ==
    /\ HistoryInit /\ RegionNone /\ CodecNone /\ MoreNone
    /\ ArrayNone /\ SaveNone /\ LoaderNone
    /\ \E chunks \in [ ChunkCoords -> { NewChunk, MissingChunk, BrokenChunk } ] :
         blockworld = [ op |-> "new", chunks |-> chunks, exc |-> "none",
                        created |-> FALSE, x |-> 0, version |-> "",
                        block |-> Air, block_entity |-> NoEntity ]

NextBlock ==
    \/ \E x \in BlockXs, version \in Versions, name \in BlockNames, entity \in EntityNames :
         Call_set_version_block(x, version, Block(version, name),
                                IF entity = NoEntity THEN NoEntity
                                ELSE Block(version, entity))
    \/ \E cx \in ChunkCoords : Call_block_delete_chunk(cx)

SpecBlock == InitBlock /\ [][NextBlock]_vars

\* C27: set_version_block stores at the location the universal form of the
\* given block and block entity, which it converts from the given version's
\* format, and creates the chunk first when it does not exist.
C27_StoresUniversal ==
    (blockworld.op = "set_version_block" /\ blockworld.exc = "none") =>
      LET cx == block_coords_to_chunk_coords(blockworld.x)
          u == to_universal(blockworld.version, blockworld.block,
                            blockworld.block_entity)
      IN /\ blockworld.chunks[cx].state = "loaded"
         /\ blockworld.chunks[cx].blocks[blockworld.x - 16 * cx] = u.block
         /\ blockworld.chunks[cx].block_entities[blockworld.x] = u.block_entity

(***************************************************************************)
(* The interface loader (world_interface/interfaces/__init__.py).  A       *)
(* directory of the interfaces directory is what _find_interfaces reads of *)
(* it: whether interface.meta is there, its two version numbers, the id,   *)
(* whether the module has INTERFACE_CLASS, and the identifiers the class's *)
(* is_valid accepts.  _loaded_interfaces is a dict: a sequence of entries  *)
(* in insertion order; an instance is named by the directory it came from. *)
(***************************************************************************)
MaxDirs == 3

SUPPORTED_INTERFACE_VERSION == 0

SUPPORTED_META_VERSION == 0

Identifiers == { "anvil", "leveldb" }

InterfaceIds == { "anvil", "anvil2" }

\* What a directory can hold.
Directories ==
    { [ meta |-> TRUE, meta_version |-> 0, interface_version |-> 0,
        class |-> TRUE, id |-> id, accepts |-> a ] :
        id \in InterfaceIds, a \in { { }, { "anvil" } } }
    \cup { [ meta |-> FALSE, meta_version |-> 0, interface_version |-> 0,
             class |-> TRUE, id |-> "anvil", accepts |-> { "anvil" } ],
           [ meta |-> TRUE, meta_version |-> 1, interface_version |-> 0,
             class |-> TRUE, id |-> "anvil", accepts |-> { "anvil" } ],
           [ meta |-> TRUE, meta_version |-> 0, interface_version |-> 1,
             class |-> TRUE, id |-> "anvil", accepts |-> { "anvil" } ],
           [ meta |-> TRUE, meta_version |-> 0, interface_version |-> 0,
             class |-> FALSE, id |-> "anvil", accepts |-> { "anvil" } ] }

\* dict[key] = value: a key already there keeps its place
DictSet(dict, key, value) ==
    IF \E i \in DOMAIN dict : dict[i].id = key
    THEN [ i \in DOMAIN dict |->
             IF dict[i].id = key THEN [ id |-> key, inst |-> value ] ELSE dict[i] ]
    ELSE Append(dict, [ id |-> key, inst |-> value ])

\* for d in directories: ... of _find_interfaces, from directory i on
RECURSIVE find_from(_, _, _)
find_from(dirs, i, dict) ==
    IF i > Len(dirs) THEN dict
    ELSE LET d == dirs[i]
         IN IF ~d.meta THEN find_from(dirs, i + 1, dict)
            ELSE IF d.meta_version # SUPPORTED_META_VERSION
            THEN find_from(dirs, i + 1, dict)
            ELSE IF d.interface_version # SUPPORTED_INTERFACE_VERSION
            THEN find_from(dirs, i + 1, dict)
            ELSE IF ~d.class THEN find_from(dirs, i + 1, dict)
            ELSE find_from(dirs, i + 1, DictSet(dict, d.id, i))

_find_interfaces(L) ==
    [ L EXCEPT !._loaded_interfaces = find_from(L.dirs, 1, @),
               !._has_loaded_interfaces = TRUE ]

\* interface_instance.is_valid(identifier)
is_valid(L, inst, identifier) == identifier \in L.dirs[inst].accepts

\* An _identify that takes the first loaded interface, valid or not.
_identify_first_loaded(L, identifier) ==
    LET M == IF ~L._has_loaded_interfaces THEN _find_interfaces(L) ELSE L
    IN IF M._loaded_interfaces = << >>
       THEN [ L |-> M, name |-> "", exc |-> "InterfaceLoaderNoneMatched" ]
       ELSE [ L |-> M, name |-> M._loaded_interfaces[1].id, exc |-> "none" ]

_identify(L, identifier) ==
    LET M == IF ~L._has_loaded_interfaces THEN _find_interfaces(L) ELSE L
        valid == { i \in DOMAIN M._loaded_interfaces :
                     is_valid(M, M._loaded_interfaces[i].inst, identifier) }
    IN IF valid = { }
       THEN [ L |-> M, name |-> "", exc |-> "InterfaceLoaderNoneMatched" ]
       ELSE [ L |-> M, exc |-> "none",
              name |-> M._loaded_interfaces[
                         CHOOSE i \in valid : \A j \in valid : i <= j].id ]

\* _loaded_interfaces[interface_id]
DictGet(dict, key) == dict[CHOOSE i \in DOMAIN dict : dict[i].id = key].inst

get_interface(L, identifier) ==
    LET r == _identify(L, identifier)
    IN IF r.exc # "none" THEN [ r.L EXCEPT !.exc = r.exc, !.ret = 0 ]
       ELSE [ r.L EXCEPT !.exc = "none",
                         !.ret = DictGet(r.L._loaded_interfaces, r.name) ]

\* reload(): _loaded_interfaces.clear(); _find_interfaces()
reload(L) ==
    [ _find_interfaces([ L EXCEPT !._loaded_interfaces = << >> ])
        EXCEPT !.exc = "none", !.ret = 0 ]

get_all_loaded_interfaces(L) ==
    LET M == IF ~L._has_loaded_interfaces THEN _find_interfaces(L) ELSE L
    IN [ M EXCEPT !.exc = "none", !.ret = 0 ]

LoaderHere == loader.op # "init"

LoaderCommit(op, arg, L) ==
    /\ LoaderHere
    /\ loader' = [ L EXCEPT !.op = op, !.arg = arg,
                            !.was_loaded = loader._has_loaded_interfaces ]
    /\ UNCHANGED << moreVars, historyVars, regionVars, codecVars, parray, save, blockworld >>

Call_get_interface(identifier) ==
    LoaderCommit("get_interface", identifier, get_interface(loader, identifier))

Call_reload == LoaderCommit("reload", "", reload(loader))

Call_get_all_loaded_interfaces ==
    LoaderCommit("get_all_loaded_interfaces", "", get_all_loaded_interfaces(loader))

RECURSIVE SeqsUpTo(_, _)
SeqsUpTo(S, n) ==
    IF n = 0 THEN { << >> }
    ELSE LET shorter == SeqsUpTo(S, n - 1)
         IN shorter \cup { Append(q, x) : q \in shorter, x \in S }

InitLoader ==
    /\ HistoryInit /\ RegionNone /\ CodecNone /\ MoreNone
    /\ ArrayNone /\ SaveNone /\ BlockNone
    /\ \E dirs \in SeqsUpTo(Directories, MaxDirs) :
         loader = [ op |-> "import", arg |-> "", dirs |-> dirs,
                    _loaded_interfaces |-> << >>,
                    _has_loaded_interfaces |-> FALSE, was_loaded |-> FALSE,
                    ret |-> 0, exc |-> "none" ]

NextLoader ==
    \/ \E identifier \in Identifiers : Call_get_interface(identifier)
    \/ Call_reload
    \/ Call_get_all_loaded_interfaces

SpecLoader == InitLoader /\ [][NextLoader]_vars

\* The directories that _find_interfaces enables.
Enabled_dirs(dirs) ==
    { i \in DOMAIN dirs :
        /\ dirs[i].meta /\ dirs[i].class
        /\ dirs[i].meta_version = SUPPORTED_META_VERSION
        /\ dirs[i].interface_version = SUPPORTED_INTERFACE_VERSION }

\* The place of an id in load order: the first enabled directory with it.
FirstLoad(dirs, id) ==
    CHOOSE i \in Enabled_dirs(dirs) :
      /\ dirs[i].id = id
      /\ \A j \in Enabled_dirs(dirs) : dirs[j].id = id => i <= j

\* The instance an id stands for once all directories are read: the last
\* enabled directory with it.
Standing(dirs) ==
    { i \in Enabled_dirs(dirs) :
        \A j \in Enabled_dirs(dirs) : dirs[j].id = dirs[i].id => j <= i }

\* C28: get_interface(identifier) loads the interfaces when they have not
\* been loaded; it returns a loaded interface that accepts the identifier,
\* the first such in load order, and raises InterfaceLoaderNoneMatched
\* exactly when no loaded interface accepts it.
C28_GetInterface ==
    loader.op = "get_interface" =>
      LET dirs == loader.dirs
          accepting == { i \in Standing(dirs) : loader.arg \in dirs[i].accepts }
      IN /\ loader._has_loaded_interfaces
         /\ { loader._loaded_interfaces[k].inst :
                k \in DOMAIN loader._loaded_interfaces } = Standing(dirs)
         /\ loader.exc = "InterfaceLoaderNoneMatched" <=> accepting = { }
         /\ loader.exc = "none" =>
              /\ loader.ret \in accepting
              /\ \A i \in accepting :
                   FirstLoad(dirs, dirs[loader.ret].id) <= FirstLoad(dirs, dirs[i].id)
         /\ loader.exc \in { "none", "InterfaceLoaderNoneMatched" }

C28_Witness ==
    /\ loader.op = "get_interface" /\ loader.exc = "none"
    /\ ~loader.was_loaded
    /\ Len(loader._loaded_interfaces) = 2
    /\ loader.ret = loader._loaded_interfaces[2].inst

(***************************************************************************)
(* BaseLevel.run_operation when the operation succeeds.                    *)
(***************************************************************************)
\* C30: when the operation given to run_operation returns (or its generator
\* is driven to its end), restore_last_undo_point() is not called; with
\* create_undo the history manager gets exactly one create_undo_point(),
\* made after the operation's edits, which it therefore holds; without
\* create_undo no call is made at all and the edits stay pending.
C30_RunOperationSucceeds ==
    [][ (last'.op = "run_operation" /\ last'.raised = "none") =>
          /\ last'.exc = "none"
          /\ \A i \in 1 .. Len(calls') : calls'[i].op # "restore_last_undo_point"
          /\ last'.arg = "create_undo" =>
               /\ ManagerCalls(calls') = << "create_undo_point" >>
               /\ calls'[1].on = "history_manager"
               /\ \A t \in Registered :
                    /\ ~tr'[t].dirty
                    /\ tr'[t].base = tr'[t].cur
                    /\ tr'[t].edits > tr[t].edits => tr'[t].cur = tr'[t].edits
          /\ last'.arg = "no_undo" =>
               /\ calls' = << >>
               /\ snapshots' = snapshots /\ redo_snapshots' = redo_snapshots
               /\ \A t \in Registered :
                    /\ tr'[t].base = tr[t].base /\ tr'[t].undo = tr[t].undo
                    /\ tr'[t].edits > tr[t].edits => tr'[t].dirty
      ]_vars

\* C30 witness: a generator operation that edited a registered tracker and
\* succeeded, and the undo point made after it holds the edit.
C30_Witness ==
    /\ last.op = "run_operation" /\ last.raised = "none"
    /\ last.kind = "generator_returns" /\ last.arg = "create_undo"
    /\ ManagerCalls(calls) = << "create_undo_point" >>
    /\ \E i \in 1 .. Len(calls) :
         /\ calls[i].on \in Trackers /\ calls[i].ret = "True"
         /\ tr[calls[i].on].base = tr[calls[i].on].edits

(***************************************************************************)
(* Format.load_chunk (world_interface/formats/format.py).  The interface,  *)
(* the translator and BlockManager are not among the sources: a stored     *)
(* chunk is what interface.decode gives for it (its cells, which hold      *)
(* indices into its own palette, and that palette) and the neighbours its  *)
(* translator asks for when it is given a callback; the translator gives   *)
(* each block its universal name; a BlockManager is the sequence of its    *)
(* blocks, a block's index being its place counted from 0.  BlockManagers  *)
(* are objects: they live on a heap and are passed by their number.        *)
(***************************************************************************)
FormatBlocks == { "air", "stone", "grass_path" }

\* translator.to_universal on one palette entry
UniversalName(block) == IF block = "grass_path" THEN "dirt_path" ELSE block

\* Sequences of distinct blocks, up to three.
PalettesOver(blocks) ==
    { q \in { << >> } \cup { << a >> : a \in blocks }
            \cup { << a, b >> : a \in blocks, b \in blocks }
            \cup { << a, b, c >> : a \in blocks, b \in blocks, c \in blocks } :
        \A i, j \in DOMAIN q : q[i] = q[j] => i = j }

\* BlockManager.get_add_block(block): the index of the block, added at the
\* end when it is new.
get_add_block(palette, block) ==
    IF \E i \in DOMAIN palette : palette[i] = block
    THEN [ palette |-> palette,
           index |-> (CHOOSE i \in DOMAIN palette : palette[i] = block) - 1 ]
    ELSE [ palette |-> Append(palette, block), index |-> Len(palette) ]

\* for block, index in chunk_palette._block_to_index_map.items():
\*     chunk._blocks[chunk._blocks == index] = palette.get_add_block(block)
\* from entry i of chunk_palette on; R holds the cells and the palette.
RECURSIVE remap(_, _, _)
remap(R, chunk_palette, i) ==
    IF i > Len(chunk_palette) THEN R
    ELSE LET g == get_add_block(R.palette, chunk_palette[i])
         IN remap([ palette |-> g.palette,
                    cells |-> [ k \in DOMAIN R.cells |->
                                  IF R.cells[k] = i - 1 THEN g.index
                                  ELSE R.cells[k] ] ],
                  chunk_palette, i + 1)

\* palette = BlockManager() of the callback: a new object on the heap
callback_palette_shared(H, p) == [ H |-> H, p |-> p ]

callback_palette(H, p) ==
    [ H |-> [ H EXCEPT !.palettes = Append(@, << >>) ],
      p |-> Len(H.palettes) + 1 ]

RECURSIVE load_chunk_at(_, _, _, _, _)
RECURSIVE callbacks(_, _, _, _, _)

\* The calls callback(x, z) the translator makes, one per neighbour asked.
callbacks(H, cx, p, asked, depth) ==
    IF asked = { } THEN H
    ELSE LET x == CHOOSE a \in asked : \A b \in asked : a <= b
             n == callback_palette(H, p)
         IN callbacks(load_chunk_at(n.H, cx + x, n.p, FALSE, depth + 1),
                      cx, p, asked \ { x }, depth)

\* self.load_chunk(cx, cz, palette, recurse) at nesting depth depth
load_chunk_at(H, cx, p, recurse, depth) ==
    LET data == H.disk[cx]
        entered == [ H EXCEPT !.log = Append(@, [ cx |-> cx, p |-> p,
                                  recurse |-> recurse, depth |-> depth ]) ]
        asked == IF recurse THEN data.asks ELSE { }
        translated == callbacks(entered, cx, p, asked, depth)
        chunk_palette == [ i \in DOMAIN data.palette |->
                             UniversalName(data.palette[i]) ]
        R == remap([ palette |-> translated.palettes[p], cells |-> data.cells ],
                   chunk_palette, 1)
    IN [ translated EXCEPT !.palettes[p] = R.palette, !.cells = R.cells ]

FormatChunks == { 0, 1 }

\* The chunk the claims follow (chunk 0): every palette and two cells.
StoredChunks ==
    { [ palette |-> pal, cells |-> cells, asks |-> asks ] :
        pal \in PalettesOver(FormatBlocks) \ { << >> },
        cells \in [ 1 .. 2 -> 0 .. 2 ], asks \in { { }, { 1 } } }

WellFormed(c) == \A k \in DOMAIN c.cells : c.cells[k] < Len(c.palette)

\* Its neighbour (chunk 1), which in turn would ask for chunk 0.
NeighbourChunks ==
    { [ palette |-> pal, cells |-> << 0, 0 >>, asks |-> { -1 } ] :
        pal \in { << "air" >>, << "grass_path" >>, << "stone", "air" >> } }

FmtHere == fmt.op # "init"

Call_load_chunk_format(cx) ==
    /\ FmtHere
    /\ LET H == [ disk |-> fmt.disk, palettes |-> << fmt.palette >>,
                  log |-> << >>, cells |-> << >> ]
           R == load_chunk_at(H, cx, 1, TRUE, 1)
       IN fmt' = [ fmt EXCEPT !.op = "load_chunk", !.cx = cx,
                              !.before = fmt.palette,
                              !.palette = R.palettes[1], !.cells = R.cells,
                              !.log = R.log ]
    /\ UNCHANGED << historyVars, regionVars, codecVars, restVars, resolve, anvil >>

InitFormat ==
    /\ HistoryInit /\ RegionNone /\ CodecNone
    /\ ArrayNone /\ SaveNone /\ BlockNone /\ LoaderNone
    /\ ResolveNone /\ AnvilNone
    /\ \E c \in { d \in StoredChunks : WellFormed(d) }, n \in NeighbourChunks,
          initial \in PalettesOver({ "air", "stone" }) :
         fmt = [ op |-> "new", disk |-> [ cx \in FormatChunks |-> IF cx = 0 THEN c ELSE n ], palette |-> initial,
                 before |-> initial, cx |-> 0, cells |-> << >>, log |-> << >> ]

NextFormat == \E cx \in FormatChunks : Call_load_chunk_format(cx)

SpecFormat == InitFormat /\ [][NextFormat]_vars

IndexIn(palette, block) == (CHOOSE i \in DOMAIN palette : palette[i] = block) - 1

\* C31: after load_chunk every cell holds the world palette index of the
\* block that the cell's chunk-local index named.
C31_RemapCorrect ==
    fmt.op = "load_chunk" =>
      LET data == fmt.disk[fmt.cx]
      IN \A k \in DOMAIN data.cells :
           LET block == UniversalName(data.palette[data.cells[k] + 1])
           IN /\ \E i \in DOMAIN fmt.palette : fmt.palette[i] = block
              /\ fmt.cells[k] = IndexIn(fmt.palette, block)

\* C32: a load_chunk with recurse=True nests at most two deep: the loads the
\* translator's callback makes, one per neighbour asked, run with
\* recurse=False and on a palette of their own, and the caller's palette
\* ends as it was plus the blocks of the caller's own chunk.
C32_BoundedRecursion ==
    fmt.op = "load_chunk" =>
      LET data == fmt.disk[fmt.cx]
          own == { UniversalName(data.palette[i]) : i \in DOMAIN data.palette }
      IN /\ Len(fmt.log) = 1 + Cardinality(data.asks)
         /\ fmt.log[1] = [ cx |-> fmt.cx, p |-> 1, recurse |-> TRUE, depth |-> 1 ]
         /\ \A i \in 2 .. Len(fmt.log) :
              /\ fmt.log[i].depth = 2 /\ ~fmt.log[i].recurse
              /\ fmt.log[i].p # 1
              /\ fmt.log[i].cx - fmt.cx \in data.asks
              /\ \A j \in 2 .. Len(fmt.log) : fmt.log[j].p = fmt.log[i].p => j = i
         /\ SubSeq(fmt.palette, 1, Len(fmt.before)) = fmt.before
         /\ Range(fmt.palette) = Range(fmt.before) \cup own

C32_Witness ==
    /\ fmt.op = "load_chunk" /\ fmt.cx = 0
    /\ Len(fmt.log) = 2
    /\ fmt.disk[1].palette = << "grass_path" >>
    /\ fmt.disk[1].asks # { }
    /\ "dirt_path" \notin Range(fmt.palette)
    /\ Len(fmt.palette) > Len(fmt.before)

(***************************************************************************)
(* The Anvil chunk interfaces 1466, 1484, 1912 and 1934                    *)
(* (level/interfaces/chunk/anvil).  A class is the features its __init__   *)
(* leaves and its minor_is_valid.  The base class and the parents 1444,    *)
(* 1467 and 1908 are not among the sources: _set_feature is taken to set   *)
(* the one named feature, and a parent's features are an input.            *)
(***************************************************************************)
\* Data versions around the ends of the four ranges.
DataVersions ==
    (1464 .. 1469) \cup (1482 .. 1486) \cup (1501 .. 1505)
    \cup (1909 .. 1914) \cup (1931 .. 1936) \cup (2200 .. 2205)

\* What super().__init__() may leave for the parents outside the sources.
BaseFeatures ==
    [ height_map : { "256IA", "C|V1" }, status : { "Java_13", "Java_14" },
      light_optional : { "false", "true" } ]

\* self._set_feature(name, value)
_set_feature(features, name, value) == [ features EXCEPT ![name] = value ]

Anvil1466Interface(parent) == _set_feature(parent, "height_map", "C|V1")

Anvil1484Interface(parent) == _set_feature(parent, "height_map", "C|V2")

Anvil1912Interface(parent) == _set_feature(parent, "status", "Java_14")

Anvil1934Interface(parent) ==
    _set_feature(Anvil1912Interface(parent), "light_optional", "true")

Anvil1466_minor_is_valid(key) == 1466 <= key /\ key < 1467

Anvil1484_minor_is_valid(key) == 1484 <= key /\ key < 1503

\* (a mutant: the range takes in its upper end)
Anvil1912_minor_is_valid_closed(key) == 1912 <= key /\ key <= 1934

Anvil1912_minor_is_valid(key) == 1912 <= key /\ key < 1934

Anvil1934_minor_is_valid(key) == 1934 <= key /\ key < 2203

\* The interfaces of the four that accept a data version.
ValidInterfaces(key) ==
    { n \in { 1466, 1484, 1912, 1934 } :
        \/ n = 1466 /\ Anvil1466_minor_is_valid(key)
        \/ n = 1484 /\ Anvil1484_minor_is_valid(key)
        \/ n = 1912 /\ Anvil1912_minor_is_valid(key)
        \/ n = 1934 /\ Anvil1934_minor_is_valid(key) }

FeaturesOf(n, parent) ==
    CASE n = 1466 -> Anvil1466Interface(parent)
      [] n = 1484 -> Anvil1484Interface(parent)
      [] n = 1912 -> Anvil1912Interface(parent)
      [] n = 1934 -> Anvil1934Interface(parent)

Call_resolve ==
    /\ resolve.op = "new"
    /\ resolve' = [ resolve EXCEPT
                      !.op = "resolve",
                      !.valid = ValidInterfaces(resolve.key),
                      !.features = [ n \in { 1466, 1484, 1912, 1934 } |->
                                       FeaturesOf(n, resolve.parent) ] ]
    /\ UNCHANGED << historyVars, regionVars, codecVars, restVars, fmt, anvil >>

InitResolve ==
    /\ HistoryInit /\ RegionNone /\ CodecNone
    /\ ArrayNone /\ SaveNone /\ BlockNone /\ LoaderNone
    /\ FmtNone /\ AnvilNone
    /\ \E key \in DataVersions, parent \in BaseFeatures :
         resolve = [ op |-> "new", key |-> key, parent |-> parent,
                     valid |-> { }, features |-> << >> ]

NextResolve == Call_resolve

SpecResolve == InitResolve /\ [][NextResolve]_vars

\* The features in which two feature records differ.
Differing(f, g) == { name \in DOMAIN f : f[name] # g[name] }

\* C33: a data version is accepted by at most one of the four interfaces,
\* by the one whose range [1466,1467), [1484,1503), [1912,1934) or
\* [1934,2203) holds it, so by exactly one from 1912 to 2202; and each class
\* has its parent's features but for the one it sets, which has the value
\* set (height_map C|V1, height_map C|V2, status Java_14, light_optional
\* true).
C33_OneInterfacePerVersion ==
    resolve.op = "resolve" =>
      LET key == resolve.key
      IN /\ Cardinality(resolve.valid) <= 1
         /\ 1466 \in resolve.valid <=> key = 1466
         /\ 1484 \in resolve.valid <=> key \in 1484 .. 1502
         /\ 1912 \in resolve.valid <=> key \in 1912 .. 1933
         /\ 1934 \in resolve.valid <=> key \in 1934 .. 2202
         /\ key \in 1912 .. 2202 => Cardinality(resolve.valid) = 1
         /\ Differing(resolve.features[1466], resolve.parent) \subseteq { "height_map" }
         /\ resolve.features[1466].height_map = "C|V1"
         /\ Differing(resolve.features[1484], resolve.parent) \subseteq { "height_map" }
         /\ resolve.features[1484].height_map = "C|V2"
         /\ Differing(resolve.features[1912], resolve.parent) \subseteq { "status" }
         /\ resolve.features[1912].status = "Java_14"
         /\ Differing(resolve.features[1934], resolve.features[1912])
              \subseteq { "light_optional" }
         /\ resolve.features[1934].light_optional = "true"

C33_Witness ==
    /\ resolve.op = "resolve" /\ resolve.key = 1934
    /\ resolve.valid = { 1934 }
    /\ resolve.parent.light_optional = "false"
    /\ Differing(resolve.features[1934], resolve.features[1912]) = { "light_optional" }

(***************************************************************************)
(* AnvilFormat (level/formats/anvil_world/format.py): the vertical bounds  *)
(* _register_dimension gives a dimension.  The settings of a dimension are *)
(* what get_recursive finds under Data/WorldGenSettings/dimensions/<name>/ *)
(* type: nothing, a string naming a file of the data pack, a compound, or  *)
(* another tag; min_y and height are there as integers or not.             *)
(***************************************************************************)
Absent == [ present |-> FALSE, value |-> 0 ]

Given(n) == [ present |-> TRUE, value |-> n ]

\* DefaultSelection of amulet.api.wrapper: the vertical range 0 to 256
DefaultBounds == [ lo |-> 0, hi |-> 256, default |-> TRUE ]

\* min_y = settings["min_y"]; if min_y % 16: min_y = 16 * (min_y // 16)
round_min_y(field) ==
    IF field.present
    THEN IF field.value % 16 # 0 THEN 16 * (field.value \div 16) ELSE field.value
    ELSE 0

\* height = settings["height"]; if height % 16: height = -16 * (-height // 16)
round_height(field) ==
    IF field.present
    THEN IF field.value % 16 # 0 THEN -16 * ((-field.value) \div 16)
         ELSE field.value
    ELSE 256

\* SelectionBox((-30_000_000, min_y, -30_000_000),
\*              (30_000_000, min_y + height, 30_000_000))
settings_bounds(settings) ==
    LET min_y == round_min_y(settings.min_y)
        height == round_height(settings.height)
    IN [ lo |-> min_y, hi |-> min_y + height, default |-> FALSE ]

\* The bounds of _register_dimension: lines 207-301.
dimension_bounds(version, settings) ==
    IF version >= 2709
    THEN IF settings.type = "string"
         THEN IF settings.colon /\ settings.has_file /\ settings.json_ok
              THEN settings_bounds(settings)
              ELSE DefaultBounds
         ELSE IF settings.type = "compound" THEN settings_bounds(settings)
         ELSE DefaultBounds
    ELSE DefaultBounds

MinYs == { Absent } \cup { Given(n) : n \in { -64, -17, -16, -1, 0, 8, 16 } }

Heights == { Absent } \cup { Given(n) : n \in { 1, 16, 250, 256, 384 } }

DimensionSettings ==
    { [ type |-> t, colon |-> TRUE, has_file |-> TRUE, json_ok |-> TRUE,
        min_y |-> m, height |-> h ] :
        t \in { "none", "string", "compound", "other" }, m \in MinYs, h \in Heights }
    \cup { [ type |-> "string", colon |-> c, has_file |-> f, json_ok |-> j,
             min_y |-> Given(-64), height |-> Given(384) ] :
             c \in BOOLEAN, f \in BOOLEAN, j \in BOOLEAN }

WorldVersions == { 2203, 2708, 2709, 2730 }

Call_register_dimension_bounds ==
    /\ anvil.op = "settings"
    /\ anvil' = [ anvil EXCEPT !.op = "_register_dimension",
                    !.bounds = dimension_bounds(anvil.version, anvil.settings) ]
    /\ UNCHANGED << historyVars, regionVars, codecVars, restVars, fmt, resolve >>

InitBounds ==
    /\ HistoryInit /\ RegionNone /\ CodecNone
    /\ ArrayNone /\ SaveNone /\ BlockNone /\ LoaderNone
    /\ FmtNone /\ ResolveNone
    /\ \E version \in WorldVersions, settings \in DimensionSettings :
         anvil = [ op |-> "settings", version |-> version,
                   settings |-> settings, bounds |-> DefaultBounds ]

NextBounds == Call_register_dimension_bounds

SpecBounds == InitBounds /\ [][NextBounds]_vars

\* The settings are read: the version is recent enough and they are there.
SettingsRead ==
    /\ anvil.version >= 2709
    /\ \/ anvil.settings.type = "compound"
       \/ /\ anvil.settings.type = "string"
          /\ anvil.settings.colon /\ anvil.settings.has_file
          /\ anvil.settings.json_ok

\* C40: when the settings are read, the bounds are multiples of 16, min_y
\* rounded down and height rounded up (0 and 256 when not given), and hold
\* the whole declared range from min_y to min_y + height; otherwise the
\* bounds are the default ones.
C40_VerticalBounds ==
    anvil.op = "_register_dimension" =>
      LET b == anvil.bounds
          min_y == IF anvil.settings.min_y.present
                   THEN anvil.settings.min_y.value ELSE 0
          height == IF anvil.settings.height.present
                    THEN anvil.settings.height.value ELSE 256
      IN IF SettingsRead
         THEN /\ b.lo % 16 = 0 /\ b.hi % 16 = 0
              /\ b.lo <= min_y /\ min_y < b.lo + 16
              /\ b.hi - b.lo >= height /\ b.hi - b.lo < height + 16
              /\ min_y + height <= b.hi
         ELSE b = DefaultBounds

(***************************************************************************)
(* AnvilFormat: instances open on one world directory.  The directory is   *)
(* its session.lock (the stamp written last, 0 while there is none), the   *)
(* directories _reload_world lists and the level directories that hold     *)
(* chunk data; the clock is time.time() in milliseconds.  _reload_world    *)
(* takes its stamp and writes it later, so another instance can act in     *)
(* between.  A _lock_time of 0 is None.  WorldFormatWrapper and            *)
(* AnvilDimensionManager are not among the sources: _verify_has_lock is    *)
(* taken to raise when has_lock is false, level_regex to match DIM and a   *)
(* number.                                                                 *)
(***************************************************************************)
MaxClock == 2

MaxReloads == 2

OVERWORLD == "minecraft:overworld"

THE_NETHER == "minecraft:the_nether"

THE_END == "minecraft:the_end"

AnvilInstances == { 1, 2 }

\* AnvilDimensionManager.level_regex.fullmatch(dir_name)
level_regex(dir_name) == dir_name \in { "DIM-1", "DIM1", "DIM7" }

\* A world directory: its data version, the entries of os.listdir that are
\* directories named DIM..., and what the glob of dimensions/*/*/region
\* gives (the name made of the path, and the directory).
WorldDirectories ==
    { [ version |-> 2203, listed |-> { }, globbed |-> { } ],
      [ version |-> 2730, listed |-> { "DIM-1", "DIM7", "DIMfoo" },
        globbed |-> { << "mod:moon", "dimensions/mod/moon" >>,
                      << OVERWORLD, "dimensions/minecraft/overworld" >> } ] }

NewInstance ==
    [ pc |-> "idle", _lock_time |-> 0, _has_lock |-> FALSE, _is_open |-> FALSE,
      _mcc_support |-> FALSE, _levels |-> { }, _dimension_name_map |-> { },
      _bounds |-> { }, reloads |-> 0 ]

dimensions(I) == { pair[1] : pair \in I._dimension_name_map }

PathOf(I, dimension) ==
    (CHOOSE pair \in I._dimension_name_map : pair[1] = dimension)[2]

_register_dimension(I, relative_dimension_path, dimension_name, version) ==
    IF /\ relative_dimension_path \notin I._levels
       /\ dimension_name \notin dimensions(I)
    THEN [ I EXCEPT
             !._levels = @ \cup { relative_dimension_path },
             !._dimension_name_map =
                @ \cup { << dimension_name, relative_dimension_path >> },
             !._bounds = @ \cup { dimension_name } ]
    ELSE I

\* for dir_name in os.listdir(self.path): ...
RECURSIVE register_listed(_, _, _)
register_listed(I, listed, version) ==
    IF listed = { } THEN I
    ELSE LET dir_name == CHOOSE d \in listed : TRUE
         IN register_listed(
              IF level_regex(dir_name)
              THEN _register_dimension(I, dir_name, dir_name, version) ELSE I,
              listed \ { dir_name }, version)

\* for dimension_path in glob.glob(...): ...
RECURSIVE register_globbed(_, _, _)
register_globbed(I, globbed, version) ==
    IF globbed = { } THEN I
    ELSE LET g == CHOOSE d \in globbed : TRUE
         IN register_globbed(_register_dimension(I, g[2], g[1], version),
                             globbed \ { g }, version)

\* _reload_world from the write of session.lock on, when the write succeeds
reload_registered(I, A) ==
    LET cleared == [ I EXCEPT !._is_open = TRUE, !._has_lock = TRUE,
                              !._mcc_support = (A.version > 2203),
                              !._levels = { }, !._bounds = { } ]
        fixed == _register_dimension(
                   _register_dimension(
                     _register_dimension(cleared, "", OVERWORLD, A.version),
                     "DIM-1", THE_NETHER, A.version),
                   "DIM1", THE_END, A.version)
    IN register_globbed(register_listed(fixed, A.listed, A.version),
                        A.globbed, A.version)

_has_dimension(I, dimension) ==
    /\ dimension \in dimensions(I)
    /\ PathOf(I, dimension) \in I._levels

\* The property has_lock.
has_lock(A, I) ==
    IF I._has_lock
    THEN IF I._lock_time = 0 THEN TRUE ELSE A.session_lock = I._lock_time
    ELSE FALSE

\* What a chunk call does: whether the lock was verified, whether storage
\* was reached, what it raised or returned, and the storage afterwards.
Outcome(A, verified, touched, exc, ret, stored) ==
    [ verified |-> verified, touched |-> touched, exc |-> exc, ret |-> ret,
      stored |-> stored ]

\* What the storage of a registered dimension does for a call.
storage_call(A, I, op, dimension) ==
    LET path == PathOf(I, dimension)
    IN CASE op = "_put_raw_chunk_data" ->
              Outcome(A, TRUE, TRUE, "none", "None", A.stored \cup { path })
         [] op = "_delete_chunk" ->
              Outcome(A, TRUE, TRUE, "none", "None", A.stored \ { path })
         [] op = "_get_raw_chunk_data" ->
              IF path \in A.stored
              THEN Outcome(A, TRUE, TRUE, "none", "data", A.stored)
              ELSE Outcome(A, TRUE, TRUE, "ChunkDoesNotExist", "none", A.stored)
         [] op = "has_chunk" ->
              Outcome(A, TRUE, TRUE, "none",
                      IF path \in A.stored THEN "True" ELSE "False", A.stored)
         [] op = "all_chunk_coords" ->
              Outcome(A, TRUE, TRUE, "none",
                      IF path \in A.stored THEN "coords" ELSE "nothing",
                      A.stored)

\* (a mutant: _get_dimension without self._verify_has_lock())
through_get_dimension_unverified(A, I, op, dimension) ==
    IF ~_has_dimension(I, dimension)
    THEN Outcome(A, FALSE, FALSE, "DimensionDoesNotExist", "none", A.stored)
    ELSE [ storage_call(A, I, op, dimension) EXCEPT !.verified = FALSE ]

\* <op> on self._get_dimension(dimension)
through_get_dimension(A, I, op, dimension) ==
    IF ~has_lock(A, I)
    THEN Outcome(A, TRUE, FALSE, "ObjectReadWriteError", "none", A.stored)
    ELSE IF ~_has_dimension(I, dimension)
    THEN Outcome(A, TRUE, FALSE, "DimensionDoesNotExist", "none", A.stored)
    ELSE storage_call(A, I, op, dimension)

ChunkOps ==
    { "all_chunk_coords", "has_chunk", "_delete_chunk", "_put_raw_chunk_data",
      "_get_raw_chunk_data" }

GuardedOps == { "all_chunk_coords", "has_chunk", "_delete_chunk" }

\* all_chunk_coords, has_chunk, _delete_chunk, _put_raw_chunk_data and
\* _get_raw_chunk_data
chunk_call(A, I, op, dimension) ==
    IF op \in GuardedOps /\ ~_has_dimension(I, dimension)
    THEN Outcome(A, FALSE, FALSE, "none",
                 CASE op = "all_chunk_coords" -> "nothing"
                   [] op = "has_chunk" -> "False"
                   [] OTHER -> "None", A.stored)
    ELSE through_get_dimension(A, I, op, dimension)

AnvilHere == anvil.op \notin { "init", "settings", "_register_dimension" }

AnvilCommit(op, i, A) ==
    /\ anvil' = [ A EXCEPT !.op = op, !.i = i ]
    /\ UNCHANGED << historyVars, regionVars, codecVars, restVars, fmt, resolve >>

\* time passes
Tick ==
    /\ AnvilHere
    /\ anvil.clock < MaxClock
    /\ AnvilCommit("tick", 0, [ anvil EXCEPT !.clock = @ + 1 ])

\* _reload_world up to self._lock_time = int(time.time() * 1000)
Call_reload_world_stamp(i) ==
    /\ AnvilHere
    /\ anvil.inst[i].pc = "idle"
    /\ anvil.inst[i].reloads < MaxReloads
    /\ AnvilCommit("stamp", i,
         [ anvil EXCEPT !.inst[i].pc = "stamped",
                        !.inst[i]._lock_time = anvil.clock ])

\* the rest of _reload_world: session.lock is written, or may not be
Call_reload_world_write(i, permitted) ==
    /\ AnvilHere
    /\ anvil.inst[i].pc = "stamped"
    /\ LET I == [ anvil.inst[i] EXCEPT !.pc = "idle", !.reloads = @ + 1 ]
       IN IF permitted
          THEN AnvilCommit("_reload_world", i,
                 [ anvil EXCEPT !.session_lock = I._lock_time,
                                !.exc = "none",
                                !.inst[i] = reload_registered(I, anvil) ])
          ELSE AnvilCommit("_reload_world", i,
                 [ anvil EXCEPT !.exc = "PermissionError",
                                !.inst[i] = [ I EXCEPT !._is_open = FALSE,
                                                       !._has_lock = FALSE ] ])

ChunkDimensions == { OVERWORLD, "minecraft:unknown" }

Call_chunk(i, op, dimension) ==
    /\ AnvilHere
    /\ anvil.inst[i].pc = "idle"
    /\ LET out == chunk_call(anvil, anvil.inst[i], op, dimension)
       IN AnvilCommit(op, i,
            [ anvil EXCEPT !.stored = out.stored, !.exc = out.exc,
                           !.call = [ dimension |-> dimension,
                                      held |-> has_lock(anvil, anvil.inst[i]),
                                      registered |->
                                        _has_dimension(anvil.inst[i], dimension),
                                      verified |-> out.verified,
                                      touched |-> out.touched, ret |-> out.ret,
                                      stored |-> anvil.stored ] ])

NoCall ==
    [ dimension |-> "", held |-> FALSE, registered |-> FALSE,
      verified |-> FALSE, touched |-> FALSE, ret |-> "", stored |-> { } ]

InitAnvil ==
    /\ HistoryInit /\ RegionNone /\ CodecNone
    /\ ArrayNone /\ SaveNone /\ BlockNone /\ LoaderNone
    /\ FmtNone /\ ResolveNone
    /\ \E dir \in WorldDirectories :
         anvil = [ op |-> "new", i |-> 0, clock |-> 1, session_lock |-> 0,
                   listed |-> dir.listed, globbed |-> dir.globbed,
                   version |-> dir.version,
                   stored |-> { }, exc |-> "none", call |-> NoCall,
                   inst |-> [ i \in AnvilInstances |-> NewInstance ] ]

NextAnvil ==
    \/ Tick
    \/ \E i \in AnvilInstances : Call_reload_world_stamp(i)
    \/ \E i \in AnvilInstances, permitted \in BOOLEAN :
         Call_reload_world_write(i, permitted)
    \/ \E i \in AnvilInstances, op \in ChunkOps, dimension \in ChunkDimensions :
         Call_chunk(i, op, dimension)

SpecAnvil == InitAnvil /\ [][NextAnvil]_vars

\* C34: after a call of _reload_world that returns, every name of
\* `dimensions` has a level manager and bounds, the overworld, the nether
\* and the end are among them, and no two names have the same directory.
C34_DimensionsRegistered ==
    (AnvilHere /\ anvil.op = "_reload_world" /\ anvil.exc = "none") =>
      LET I == anvil.inst[anvil.i]
      IN /\ { OVERWORLD, THE_NETHER, THE_END } \subseteq dimensions(I)
         /\ \A d \in dimensions(I) : _has_dimension(I, d) /\ d \in I._bounds
         /\ \A a, b \in I._dimension_name_map : a[2] = b[2] => a[1] = b[1]

\* C35: of two instances that have opened the same world directory, at most
\* one has the lock, and one whose stamp in session.lock was overwritten by
\* the other has not.
C35_LockExclusion ==
    AnvilHere =>
      \A i, j \in AnvilInstances :
        (i # j /\ anvil.inst[i].pc = "idle" /\ anvil.inst[j].pc = "idle"
           /\ anvil.inst[i].reloads > 0 /\ anvil.inst[j].reloads > 0)
        => ~(has_lock(anvil, anvil.inst[i]) /\ has_lock(anvil, anvil.inst[j]))

\* What the five chunk calls have in common: storage is reached only after
\* the lock was verified and found held, in that call; for a dimension that
\* is not registered storage is not reached, all_chunk_coords yields
\* nothing, has_chunk is false and _delete_chunk does nothing.
ChunkCallGuarded ==
    /\ anvil.call.touched => (anvil.call.verified /\ anvil.call.held)
    /\ anvil.stored # anvil.call.stored => anvil.call.touched
    /\ ~anvil.call.registered =>
         /\ ~anvil.call.touched
         /\ anvil.op = "all_chunk_coords" =>
              (anvil.exc = "none" /\ anvil.call.ret = "nothing")
         /\ anvil.op = "has_chunk" =>
              (anvil.exc = "none" /\ anvil.call.ret = "False")
         /\ anvil.op = "_delete_chunk" => anvil.exc = "none"

\* C36 as stated: ... and for a dimension that is not registered
\* _get_raw_chunk_data and _put_raw_chunk_data raise DimensionDoesNotExist.
C36_AsStated ==
    (AnvilHere /\ anvil.op \in ChunkOps) =>
      /\ ChunkCallGuarded
      /\ (~anvil.call.registered /\ anvil.op \notin GuardedOps) =>
           anvil.exc = "DimensionDoesNotExist"

\* C36 amended: ... and for a dimension that is not registered
\* _get_raw_chunk_data and _put_raw_chunk_data raise DimensionDoesNotExist
\* when the instance holds the lock; when it does not, the verification of
\* the lock fails first and its error is what they raise.
C36_Amended ==
    (AnvilHere /\ anvil.op \in ChunkOps) =>
      /\ ChunkCallGuarded
      /\ (~anvil.call.registered /\ anvil.op \notin GuardedOps) =>
           /\ anvil.call.verified
           /\ anvil.exc = IF anvil.call.held THEN "DimensionDoesNotExist"
                          ELSE "ObjectReadWriteError"

\* C36 witness: an instance that opened the world and then lost the lock
\* to the other one asks for a chunk of a dimension it has not registered,
\* after a chunk was stored, and is refused by the verification of the lock.
C36_Witness ==
    /\ AnvilHere /\ anvil.op = "_get_raw_chunk_data"
    /\ ~anvil.call.registered /\ ~anvil.call.held /\ anvil.call.verified
    /\ ~anvil.call.touched /\ anvil.exc = "ObjectReadWriteError"
    /\ anvil.inst[anvil.i]._has_lock
    /\ anvil.stored # { }

\* C38: for a region file that does not change, a call of load_region ends
\* as the first call for that region ended (as a call on a manager that has
\* loaded nothing ends), and load_chunk fails for a region whose load
\* fails.
C38_LoadRegionRepeatable ==
    [][ LET key == rlast'.key
            first == load_region([ RegionHere EXCEPT !.cache = EmptyCache ],
                                 key)
        IN /\ rlast'.op = "load_region" =>
                (rlast'.ret = first.ret /\ rlast'.exc = first.exc)
           /\ (rlast'.op = "load_chunk" /\ first.ret # "True") =>
                rlast'.ret = "raised"
      ]_vars

(***************************************************************************)
(* How BaseLevel.get_block, get_version_block and set_version_block find   *)
(* the chunk of a block and the block's place in it (base_level.py).       *)
(* world_utils is not among the sources: block_coords_to_chunk_coords is   *)
(* taken to be the floor of the coordinate over sub_chunk_size.            *)
(***************************************************************************)
\* block_coords_to_chunk_coords(x, sub_chunk_size=sub_chunk_size)
block_coords_to_chunk_coords_sized(x, sub_chunk_size) == x \div sub_chunk_size

\* cx, cz = block_coords_to_chunk_coords(x, z, sub_chunk_size=self.sub_chunk_size)
\* offset_x, offset_z = x - 16 * cx, z - 16 * cz
chunk_address(x, z, sub_chunk_size) ==
    LET cx == block_coords_to_chunk_coords_sized(x, sub_chunk_size)
        cz == block_coords_to_chunk_coords_sized(z, sub_chunk_size)
    IN [ cx |-> cx, cz |-> cz, offset_x |-> x - 16 * cx,
         offset_z |-> z - 16 * cz ]

AddressMethods == { "get_block", "get_version_block", "set_version_block" }

\* self.level_wrapper.sub_chunk_size
SubChunkSizes == { 8, 16, 32 }

BlockCoordinates == { -33, -17, -16, -1, 0, 15, 16, 31, 32, 64 }

\* A call of one of the three methods, up to the chunk and the offsets it
\* goes to.
Call_address(method, x, z) ==
    /\ blockworld.op \in AddressMethods \cup { "level" }
    /\ blockworld' =
         [ blockworld EXCEPT
             !.op = method, !.x = x, !.z = z,
             !.address = chunk_address(x, z, blockworld.sub_chunk_size) ]
    /\ UNCHANGED << moreVars, historyVars, regionVars, codecVars, parray, save, loader >>

InitAddress ==
    /\ HistoryInit /\ RegionNone /\ CodecNone /\ MoreNone
    /\ ArrayNone /\ SaveNone /\ LoaderNone
    /\ \E sub_chunk_size \in SubChunkSizes :
         blockworld = [ op |-> "level", sub_chunk_size |-> sub_chunk_size,
                        x |-> 0, z |-> 0, address |-> chunk_address(0, 0, 16) ]

NextAddress ==
    \E method \in AddressMethods, x \in BlockCoordinates, z \in BlockCoordinates :
      Call_address(method, x, z)

SpecAddress == InitAddress /\ [][NextAddress]_vars

\* C39: the offsets with which get_block, get_version_block and
\* set_version_block go into the chunk lie in 0 .. sub_chunk_size - 1, for
\* every x and z and every sub_chunk_size of the level wrapper, the chunk
\* being the one block_coords_to_chunk_coords gives for that size.
C39_OffsetsInChunk ==
    blockworld.op \in AddressMethods =>
      LET a == blockworld.address
          size == blockworld.sub_chunk_size
      IN /\ a.cx = block_coords_to_chunk_coords_sized(blockworld.x, size)
         /\ a.cz = block_coords_to_chunk_coords_sized(blockworld.z, size)
         /\ a.offset_x \in 0 .. (size - 1)
         /\ a.offset_z \in 0 .. (size - 1)
====
